---- MODULE Spec2Model ----
(***************************************************************************)
(* The reconciliation engine of netbox-cisco-discovery: the managers of    *)
(* netbox_managers.py, the reconcilers of device_discovery.py and the      *)
(* device loop of netbox_cisco_discovery.py, over an inventory store that  *)
(* offers get / filter / create / update / delete per entity kind.         *)
(*                                                                         *)
(* Strings the code inspects (substring tests, replace, lower, split) are  *)
(* sequences of one-character strings; strings it only stores or compares  *)
(* whole are TLA+ strings.  None is the record [none |-> TRUE]; an id 0    *)
(* stands for a reference that is not set.                                 *)
(***************************************************************************)
EXTENDS Integers, Sequences, FiniteSets, TLC

VARIABLES
    nb,           \* the inventory store behind the pynetbox client
    used_colors,  \* DeviceManager.used_colors
    testbed,      \* the devices of the loaded testbed, in iteration order
    idx,          \* position of run_discovery's loop in the testbed
    pc,           \* where discover_device stands for the current device
    facts,        \* the parsed command outputs of the current device
    device_obj,   \* id of the record _sync_device_details returned (0: none)
    cdp_pos,      \* next neighbor record of _sync_cdp_neighbors
    ran,          \* the steps that have run for the current device
    log           \* per device handed to discover_device: how it ended

vars == <<nb, used_colors, testbed, idx, pc, facts, device_obj, cdp_pos, ran, log>>

None == [none |-> TRUE]

-----------------------------------------------------------------------------
(* Strings as character sequences, and the str methods the code uses.      *)

\* K at v, with v evaluated once (as x)
Let(v, K(_)) == CHOOSE y \in {K(x) : x \in {v}} : TRUE

\* sub in s
IsSubstr(sub, s) ==
    Let(s, LAMBDA x :
        \E i \in 1..(Len(x) - Len(sub) + 1) : SubSeq(x, i, i + Len(sub) - 1) = sub)

StartsWith(s, p) ==
    Let(s, LAMBDA x : Len(x) >= Len(p) /\ SubSeq(x, 1, Len(p)) = p)

\* s.replace(old, new) from position i on, for a non-empty old
RECURSIVE ReplaceFrom(_, _, _, _)
ReplaceFrom(s, i, old, new) ==
    IF i > Len(s) THEN <<>>
    ELSE IF i + Len(old) - 1 <= Len(s) /\ SubSeq(s, i, i + Len(old) - 1) = old
         THEN new \o ReplaceFrom(s, i + Len(old), old, new)
         ELSE <<s[i]>> \o ReplaceFrom(s, i + 1, old, new)

Replace(s, old, new) == Let(s, LAMBDA x : ReplaceFrom(x, 1, old, new))

UpperLetters == <<"A","B","C","D","E","F","G","H","I","J","K","L","M",
                  "N","O","P","Q","R","S","T","U","V","W","X","Y","Z">>
LowerLetters == <<"a","b","c","d","e","f","g","h","i","j","k","l","m",
                  "n","o","p","q","r","s","t","u","v","w","x","y","z">>

MapChar(c, from, to) ==
    IF \E i \in 1..Len(from) : from[i] = c
    THEN to[CHOOSE i \in 1..Len(from) : from[i] = c]
    ELSE c

Lower(s) ==
    Let(s, LAMBDA x : [i \in 1..Len(x) |-> MapChar(x[i], UpperLetters, LowerLetters)])
Upper(s) ==
    Let(s, LAMBDA x : [i \in 1..Len(x) |-> MapChar(x[i], LowerLetters, UpperLetters)])

\* s.split(sep)[0] for a one-character separator
SplitFirst(s, sep) ==
    Let(s, LAMBDA x :
        IF \E i \in 1..Len(x) : x[i] = sep
        THEN SubSeq(x, 1, (CHOOSE i \in 1..Len(x) :
                              x[i] = sep /\ \A j \in 1..(i - 1) : x[j] # sep) - 1)
        ELSE x)

\* re.sub('^' + p, '', s)
StripPrefix(s, p) ==
    Let(s, LAMBDA x : IF StartsWith(x, p) THEN SubSeq(x, Len(p) + 1, Len(x)) ELSE x)

-----------------------------------------------------------------------------
(* The store and the pynetbox calls.  A call returns a result record: the  *)
(* store after it, the DeviceManager's used_colors after it, whether it    *)
(* raised, and its return value.                                           *)

Ok(st, used, v) == [nb |-> st, used |-> used, exc |-> FALSE, val |-> v]
Raise(st, used) == [nb |-> st, used |-> used, exc |-> TRUE, val |-> None]

\* statement sequencing: an exception in r ends the method, else K goes on
\* from r's store with r's return value (r is evaluated once, as x)
Then(r, K(_)) == CHOOSE y \in {IF x.exc THEN x ELSE K(x) : x \in {r}} : TRUE

Field(d, k, default) == IF k \in DOMAIN d THEN d[k] ELSE default

\* Endpoint.get(): None for no match, the record for one, ValueError for more
Multi(S) == Cardinality(S) > 1
One(S) == CHOOSE x \in S : TRUE
GetOrNone(S) == IF S = {} THEN None ELSE One(S)

DevicesByName(st, name) == {d \in st.devices : d.name = name}
DeviceById(st, id) == One({d \in st.devices : d.id = id})
InterfacesByName(st, name, device_id) ==
    {i \in st.interfaces : i.name = name /\ i.device = device_id}
InterfaceById(st, id) == One({i \in st.interfaces : i.id = id})
\* address=<ip>/<len> matches the CIDR form, address=<ip> every mask length
IpsByCidr(st, addr) == {a \in st.ips : a.address = addr}
IpsByHost(st, host) == {a \in st.ips : a.address.host = host}

Cidr(host, len) == [host |-> host, len |-> len]

\* str(ip_network(ip + "/24", strict=False).supernet().network_address) + "/24"
\* the supernet of a /24 is the /23 that holds it
SupernetPrefix(host) ==
    Cidr(<<host[1], host[2], host[3] - (host[3] % 2), 0>>, 24)

-----------------------------------------------------------------------------
(* DeviceManager                                                           *)

colors == << <<"F","F","6","F","6","1">>, <<"F","F","B","0","7","C">>,
             <<"F","F","D","7","0","0">>, <<"F","F","E","F","9","6">>,
             <<"B","E","E","B","9","F">>, <<"A","7","D","8","A","D">>,
             <<"7","7","D","8","D","8">>, <<"A","E","C","6","C","F">>,
             <<"B","3","9","E","B","5">>, <<"D","7","B","9","D","5">>,
             <<"F","F","C","3","A","0">>, <<"F","F","A","B","A","B">>,
             <<"F","F","C","3","A","0">>, <<"F","F","6","7","7","D">>,
             <<"F","F","D","3","B","5">>, <<"F","F","D","3","B","5">> >>

InSeq(x, s) == \E i \in 1..Len(s) : s[i] = x

\* random.choice(available_colors): `choice` is the random draw
_pick_color(used, choice) ==
    LET avail0 == SelectSeq(colors, LAMBDA c : ~InSeq(c, used))
        reset == avail0 = <<>>
        available_colors == IF reset THEN colors ELSE avail0
        used0 == IF reset THEN <<>> ELSE used
        color == Lower(available_colors[(choice % Len(available_colors)) + 1])
    IN  [color |-> color, used |-> Append(used0, color)]

cisco_manufacturer_id == 1
generic_manufacturer_id == 2
default_site_id == 5

ensure_device_type(st, used, model, slug) ==
    LET found == {t \in st.device_types : t.slug = slug}
    IN  IF Multi(found) THEN Raise(st, used)
        ELSE IF found # {} THEN Ok(st, used, One(found).id)
        ELSE Ok([st EXCEPT !.device_types = @ \cup
                     {[id |-> st.nextId, model |-> model, slug |-> slug,
                       manufacturer |-> cisco_manufacturer_id]},
                   !.nextId = @ + 1], used, st.nextId)

ensure_platform(st, used, name, slug) ==
    LET found == {p \in st.platforms : p.slug = slug}
    IN  IF Multi(found) THEN Raise(st, used)
        ELSE IF found # {} THEN Ok(st, used, One(found).id)
        ELSE Ok([st EXCEPT !.platforms = @ \cup
                     {[id |-> st.nextId, name |-> name, slug |-> slug]},
                   !.nextId = @ + 1], used, st.nextId)

\* variant: a color is drawn before the lookup, also for a role that exists
ensure_device_role_Pick(st, used, name, slug, choice) ==
    LET found == {r \in st.device_roles : r.slug = Lower(slug)}
        picked == _pick_color(used, choice)
    IN  IF Multi(found) THEN Raise(st, used)
        ELSE IF found # {} THEN Ok(st, picked.used, One(found).id)
        ELSE Ok([st EXCEPT !.device_roles = @ \cup
                     {[id |-> st.nextId, name |-> name, slug |-> Lower(slug),
                       color |-> picked.color]},
                   !.nextId = @ + 1], picked.used, st.nextId)

ensure_device_role(st, used, name, slug, choice) ==
    LET found == {r \in st.device_roles : r.slug = Lower(slug)}
        picked == _pick_color(used, choice)
    IN  IF Multi(found) THEN Raise(st, used)
        ELSE IF found # {} THEN Ok(st, used, One(found).id)
        ELSE Ok([st EXCEPT !.device_roles = @ \cup
                     {[id |-> st.nextId, name |-> name, slug |-> Lower(slug),
                       color |-> picked.color]},
                   !.nextId = @ + 1], picked.used, st.nextId)

\* A rejected create (pynetbox.RequestError) is logged; `device` is then
\* unbound, the UnboundLocalError is caught, and `return none` raises
\* NameError out of the method.
_create_device(st, used, device_data, rejected) ==
    IF rejected THEN Raise(st, used)
    ELSE LET device == [id |-> st.nextId,
                        name |-> device_data.name,
                        device_type |-> device_data.device_type_id,
                        platform |-> device_data.platform_id,
                        serial |-> Field(device_data, "serial", ""),
                        role |-> device_data.role_id,
                        status |-> "active",
                        site |-> device_data.site_id,
                        custom_fields |-> Field(device_data, "custom_fields", <<>>),
                        primary_ip4 |-> Field(device_data, "primary_ip4", 0)]
         IN  Ok([st EXCEPT !.devices = @ \cup {device}, !.nextId = @ + 1],
                used, device)

\* variant: the update also writes the role and the primary address
UpdatedDevice_All(device, device_data) ==
    [device EXCEPT
        !.device_type = device_data.device_type_id,
        !.platform = device_data.platform_id,
        !.serial = IF "serial" \in DOMAIN device_data /\ device_data.serial # ""
                   THEN device_data.serial ELSE device.serial,
        !.role = device_data.role_id,
        !.site = device_data.site_id,
        !.custom_fields = Field(device_data, "custom_fields", <<>>),
        !.primary_ip4 = Field(device_data, "primary_ip4", 0)]

\* the record _update_device saves
UpdatedDevice(device, device_data) ==
    [device EXCEPT
        !.device_type = device_data.device_type_id,
        !.platform = device_data.platform_id,
        !.serial = IF "serial" \in DOMAIN device_data /\ device_data.serial # ""
                   THEN device_data.serial ELSE device.serial,
        !.site = device_data.site_id,
        !.custom_fields = Field(device_data, "custom_fields", <<>>)]

_update_device(st, device, device_data) ==
    [st EXCEPT !.devices = (@ \ {device}) \cup {UpdatedDevice(device, device_data)}]

\* variant: a record is created without looking for the name
create_or_update_device_Create(st, used, device_data, rejected) ==
    _create_device(st, used, device_data, rejected)

create_or_update_device(st, used, device_data, rejected) ==
    LET found == DevicesByName(st, device_data.name)
    IN  IF Multi(found) THEN Raise(st, used)
        ELSE IF found # {}
        THEN Ok(_update_device(st, One(found), device_data), used,
                UpdatedDevice(One(found), device_data))
        ELSE _create_device(st, used, device_data, rejected)

\* `lookup_fails`: the store lookup that raises, if any.  The address
\* lookup (line 143) and the fetch of the owning device (line 144) stand
\* before the try; the prefix lookup (line 152) is inside it.
get_site_id(st, used, ip_address, lookup_fails) ==
    LET found == IpsByHost(st, ip_address)
        ip_obj == GetOrNone(found)
        bound == ip_obj # None /\ ip_obj.assigned_object_id # 0
        site == DeviceById(st, InterfaceById(st, ip_obj.assigned_object_id).device).site
        prefix == {p \in st.prefixes : p.prefix = SupernetPrefix(ip_address)}
    IN  IF lookup_fails = "address" \/ Multi(found) THEN Raise(st, used)
        ELSE IF bound /\ lookup_fails = "device" THEN Raise(st, used)
        ELSE IF bound /\ site # 0 THEN Ok(st, used, site)
        ELSE IF lookup_fails = "prefix" \/ Multi(prefix) THEN Ok(st, used, default_site_id)
        ELSE IF prefix # {} /\ One(prefix).scope_id # 0
             THEN Ok(st, used, One(prefix).scope_id)
        ELSE Ok(st, used, default_site_id)

-----------------------------------------------------------------------------
(* InterfaceManager                                                        *)

_create_interface(st, device_id, interface_data) ==
    [st EXCEPT !.interfaces = @ \cup
        {[id |-> st.nextId,
          name |-> interface_data.name,
          device |-> device_id,
          type |-> interface_data.type,
          enabled |-> Field(interface_data, "enabled", TRUE),
          label |-> Field(interface_data, "label", ""),
          description |-> Field(interface_data, "description", "")]},
        !.nextId = @ + 1]

_update_interface(st, interface, interface_data) ==
    [st EXCEPT !.interfaces = (@ \ {interface}) \cup
        {[interface EXCEPT
            !.type = interface_data.type,
            !.enabled = Field(interface_data, "enabled", TRUE),
            !.label = Field(interface_data, "label", ""),
            !.description = Field(interface_data, "description", "")]}]

\* returns the interface's id
create_or_update_interface(st, used, device_id, interface_data) ==
    LET found == InterfacesByName(st, interface_data.name, device_id)
    IN  IF Multi(found) THEN Raise(st, used)
        ELSE IF found # {}
        THEN Ok(_update_interface(st, One(found), interface_data), used, One(found).id)
        ELSE Ok(_create_interface(st, device_id, interface_data), used, st.nextId)

s_TenGigabitEthernet ==
    <<"T","e","n","G","i","g","a","b","i","t","E","t","h","e","r","n","e","t">>
s_FastEthernet == <<"F","a","s","t","E","t","h","e","r","n","e","t">>
s_GigabitEthernet == <<"G","i","g","a","b","i","t","E","t","h","e","r","n","e","t">>

type_mapping(interface_spec) ==
    CASE interface_spec = "10/100/1000BaseTX" -> "1000base-tx"
      [] interface_spec = "1000BaseSX SFP" -> "1000base-x-sfp"
      [] interface_spec = "10/100BaseTX" -> "100base-tx"
      [] interface_spec \in {"SFP-10GBase-LR", "SFP-10GBase-SR", "SFP-10GBase-LRM"}
            -> "10gbase-x-sfpp"
      [] interface_spec = "QSFP-40G-CR" -> "40gbase-x-qsfpp"
      [] interface_spec \in {"unknown", "Not Present", "--"} -> "other"
      [] OTHER -> "virtual"

get_interface_type(interface_spec, mode) ==
    IF mode = "device" THEN type_mapping(interface_spec)
    ELSE IF mode = "cdp"
    THEN IF IsSubstr(s_TenGigabitEthernet, interface_spec) THEN "10gbase-t"
         ELSE IF IsSubstr(s_FastEthernet, interface_spec) THEN "100base-tx"
         ELSE IF IsSubstr(s_GigabitEthernet, interface_spec) THEN "1000base-tx"
         ELSE "other"
    ELSE "other"

-----------------------------------------------------------------------------
(* VLANManager                                                             *)

\* variant: an existing VLAN keeps its name
create_or_update_vlan_KeepName(st, used, vlan_data) ==
    LET found == {v \in st.vlans : v.vid = vlan_data.vid}
    IN  IF Multi(found) THEN Raise(st, used)
        ELSE IF found # {} THEN Ok(st, used, One(found).id)
        ELSE Ok([st EXCEPT !.vlans = @ \cup
                     {[id |-> st.nextId, name |-> vlan_data.name, vid |-> vlan_data.vid]},
                   !.nextId = @ + 1], used, st.nextId)

create_or_update_vlan(st, used, vlan_data) ==
    LET found == {v \in st.vlans : v.vid = vlan_data.vid}
        vlan == One(found)
    IN  IF Multi(found) THEN Raise(st, used)
        ELSE IF found # {}
        THEN IF vlan.name # vlan_data.name
             THEN Ok([st EXCEPT !.vlans = (@ \ {vlan}) \cup
                          {[vlan EXCEPT !.name = vlan_data.name]}], used, vlan.id)
             ELSE Ok(st, used, vlan.id)
        ELSE Ok([st EXCEPT !.vlans = @ \cup
                     {[id |-> st.nextId, name |-> vlan_data.name, vid |-> vlan_data.vid]},
                   !.nextId = @ + 1], used, st.nextId)

-----------------------------------------------------------------------------
(* IPManager                                                               *)

\* returns the address record
create_or_get_ip(st, used, ip_address) ==
    LET found == IpsByCidr(st, ip_address)
        ip == [id |-> st.nextId, address |-> ip_address, status |-> "active",
               assigned_object_id |-> 0]
    IN  IF Multi(found) THEN Raise(st, used)
        ELSE IF found # {} THEN Ok(st, used, One(found))
        ELSE Ok([st EXCEPT !.ips = @ \cup {ip}, !.nextId = @ + 1], used, ip)

\* variant: the binding is written whether or not the address is bound
assign_ip_to_interface_Rebind(st, used, ip_address, interface_id, device_id) ==
    Then(create_or_get_ip(st, used, ip_address), LAMBDA got :
        Ok([got.nb EXCEPT !.ips = (@ \ {got.val}) \cup
                {[got.val EXCEPT !.assigned_object_id = interface_id]}], used,
           [got.val EXCEPT !.assigned_object_id = interface_id]))

\* set_primary is never passed by a caller and keeps its default, False
assign_ip_to_interface(st, used, ip_address, interface_id, device_id) ==
    Then(create_or_get_ip(st, used, ip_address), LAMBDA got :
        IF got.val.assigned_object_id = 0
        THEN Ok([got.nb EXCEPT !.ips = (@ \ {got.val}) \cup
                     {[got.val EXCEPT !.assigned_object_id = interface_id]}], used,
                [got.val EXCEPT !.assigned_object_id = interface_id])
        ELSE Ok(got.nb, used, got.val))

-----------------------------------------------------------------------------
(* CableManager: a cable's terminations are sets of interface ids          *)

CablesBetween(st, a_id, b_id) ==
    {c \in st.cables : a_id \in c.a_terminations /\ b_id \in c.b_terminations}

\* variant: only the orientation (A, B) is looked up
create_or_update_cable_OneWay(st, used, interface_a_id, interface_b_id) ==
    LET first == CablesBetween(st, interface_a_id, interface_b_id)
    IN  IF Multi(first) THEN Raise(st, used)
        ELSE IF first # {} THEN Ok(st, used, One(first).id)
        ELSE Ok([st EXCEPT !.cables = @ \cup
                     {[id |-> st.nextId,
                       a_terminations |-> {interface_a_id},
                       b_terminations |-> {interface_b_id},
                       status |-> "connected"]},
                   !.nextId = @ + 1], used, st.nextId)

create_or_update_cable(st, used, interface_a_id, interface_b_id) ==
    LET first == CablesBetween(st, interface_a_id, interface_b_id)
        second == CablesBetween(st, interface_b_id, interface_a_id)
    IN  IF Multi(first) THEN Raise(st, used)
        ELSE IF first # {} THEN Ok(st, used, One(first).id)
        ELSE IF Multi(second) THEN Raise(st, used)
        ELSE IF second # {} THEN Ok(st, used, One(second).id)
        ELSE Ok([st EXCEPT !.cables = @ \cup
                     {[id |-> st.nextId,
                       a_terminations |-> {interface_a_id},
                       b_terminations |-> {interface_b_id},
                       status |-> "connected"]},
                   !.nextId = @ + 1], used, st.nextId)

\* variant: no cable is purged
remove_loose_cables_None(st) == st

\* variant: every cable is purged
remove_loose_cables_All(st) == [st EXCEPT !.cables = {}]

remove_loose_cables(st) ==
    [st EXCEPT !.cables =
        {c \in @ : ~(c.a_terminations = {} \/ c.b_terminations = {})}]

-----------------------------------------------------------------------------
(* InventoryManager.  Parsed inventory: for ios, inventory_data.slot is    *)
(* the sequence of rp entries (slot by slot, in dict order), each with     *)
(* name, sn, pid and optionally subslot, a sequence of                     *)
(* [name, sfps: sequence of [sn, pid]]; for iosxe and nxos,                *)
(* inventory_data.name is the sequence of [name, data] items.              *)

Range(f) == {f[i] : i \in DOMAIN f}

RECURSIVE Flatten(_)
Flatten(ss) == IF ss = <<>> THEN <<>> ELSE Head(ss) \o Flatten(Tail(ss))

\* serials of the sfps below a 'subslot' mapping
SubslotSerials(subslot) ==
    Flatten([i \in 1..Len(subslot) |->
        Flatten([j \in 1..Len(subslot[i].sfps) |->
            IF "sn" \in DOMAIN subslot[i].sfps[j]
            THEN <<subslot[i].sfps[j].sn>> ELSE <<>>])])

s_ios == <<"i","o","s">>
s_iosxe == <<"i","o","s","x","e">>
s_nxos == <<"n","x","o","s">>

_get_netbox_serials(st, device_id) ==
    {item.serial : item \in {i \in st.inventory_items :
                                i.device = device_id /\ i.serial # ""}}

_get_device_serials(inventory_data, device_os) ==
    LET rps == Field(inventory_data, "slot", <<>>)
        items == Field(inventory_data, "name", <<>>)
        serials ==
            IF device_os = s_ios
            THEN Flatten([i \in 1..Len(rps) |->
                    (IF "sn" \in DOMAIN rps[i] THEN <<rps[i].sn>> ELSE <<>>)
                    \o SubslotSerials(Field(rps[i], "subslot", <<>>))])
            ELSE IF device_os = s_iosxe
            THEN Flatten([i \in 1..Len(items) |->
                    (IF "sn" \in DOMAIN items[i].data
                     THEN <<items[i].data.sn>> ELSE <<>>)
                    \o SubslotSerials(Field(items[i].data, "subslot", <<>>))])
            ELSE IF device_os = s_nxos
            THEN Flatten([i \in 1..Len(items) |->
                    IF "serial_number" \in DOMAIN items[i].data
                    THEN <<items[i].data.serial_number>> ELSE <<>>])
            ELSE <<>>
    IN  {x \in Range(serials) : x # ""}

\* inventory_items.get(serial=...) looks in the whole store
\* variant: every item that carries a serial to delete is removed
_remove_obsolete_loop_Any(st, used, serials_to_delete) ==
    Ok([st EXCEPT !.inventory_items = {i \in @ : i.serial \notin serials_to_delete}],
       used, None)

RECURSIVE _remove_obsolete_loop(_, _, _)
_remove_obsolete_loop(st, used, serials_to_delete) ==
    IF serials_to_delete = {} THEN Ok(st, used, None)
    ELSE LET serial == One(serials_to_delete)
             found == {i \in st.inventory_items : i.serial = serial}
         IN  IF Multi(found) THEN Raise(st, used)
             ELSE _remove_obsolete_loop(
                      [st EXCEPT !.inventory_items = @ \ found], used,
                      serials_to_delete \ {serial})

\* variant: nothing is removed
_remove_obsolete_items_Keep(st, used, netbox_serials, device_serials) ==
    Ok(st, used, None)

_remove_obsolete_items(st, used, netbox_serials, device_serials) ==
    _remove_obsolete_loop(st, used, netbox_serials \ device_serials)

s_SFP == <<"S","F","P">>

s_Te == <<"T","e">>
s_dash == <<"-">>

\* module_bays.get(name, device_id), created when absent; returns its id
EnsureModuleBay(st, used, device_id, bay_name) ==
    LET bays == {b \in st.module_bays : b.name = bay_name /\ b.device = device_id}
    IN  IF Multi(bays) THEN Raise(st, used)
        ELSE IF bays # {} THEN Ok(st, used, One(bays).id)
        ELSE Ok([st EXCEPT !.module_bays = @ \cup
                     {[id |-> st.nextId, name |-> bay_name, device |-> device_id]},
                   !.nextId = @ + 1], used, st.nextId)

\* module_types.get(model), created when absent; returns its id
EnsureModuleType(st, used, pid) ==
    LET types == {t \in st.module_types : t.model = pid}
    IN  IF Multi(types) THEN Raise(st, used)
        ELSE IF types # {} THEN Ok(st, used, One(types).id)
        ELSE Ok([st EXCEPT !.module_types = @ \cup
                     {[id |-> st.nextId, model |-> pid,
                       manufacturer |-> generic_manufacturer_id]},
                   !.nextId = @ + 1], used, st.nextId)

\* the module in the bay: created, or its serial and type overwritten
UpsertModule(st, used, device_id, module_bay_id, module_type_id, module_data) ==
    LET modules == {m \in st.modules :
                       m.module_bay = module_bay_id /\ m.device = device_id}
    IN  IF Multi(modules) THEN Raise(st, used)
        ELSE IF "sn" \notin DOMAIN module_data THEN Raise(st, used)
        ELSE IF modules = {}
        THEN Ok([st EXCEPT !.modules = @ \cup
                    {[id |-> st.nextId, serial |-> module_data.sn,
                      module_type |-> module_type_id, device |-> device_id,
                      module_bay |-> module_bay_id]},
                    !.nextId = @ + 1], used, None)
        ELSE Ok([st EXCEPT !.modules = (@ \ modules) \cup
                    {[One(modules) EXCEPT !.serial = module_data.sn,
                                          !.module_type = module_type_id]}], used, None)

_create_or_update_sfp_module(st, used, device_id, bay_name, module_data) ==
    Then(EnsureModuleBay(st, used, device_id, bay_name), LAMBDA bay :
        IF "pid" \notin DOMAIN module_data THEN Raise(bay.nb, used)
        ELSE Then(EnsureModuleType(bay.nb, used, module_data.pid), LAMBDA type :
                 UpsertModule(type.nb, used, device_id, bay.val, type.val, module_data)))

\* the sfps of one subslot, then the remaining subslots
RECURSIVE _handle_sfp_modules(_, _, _, _)
_handle_sfp_modules(st, used, device_id, subslot_data) ==
    IF subslot_data = <<>> THEN Ok(st, used, None)
    ELSE IF Head(subslot_data).sfps = <<>>
    THEN _handle_sfp_modules(st, used, device_id, Tail(subslot_data))
    ELSE Then(_create_or_update_sfp_module(st, used, device_id,
                  Head(subslot_data).name, Head(Head(subslot_data).sfps)),
              LAMBDA r :
                  _handle_sfp_modules(r.nb, used, device_id,
                      <<[Head(subslot_data) EXCEPT !.sfps = Tail(@)]>>
                      \o Tail(subslot_data)))

CreateInventoryItem(st, device_id, inv_name, serial, part_id) ==
    [st EXCEPT !.inventory_items = @ \cup
        {[id |-> st.nextId, device |-> device_id, name |-> inv_name,
          manufacturer |-> cisco_manufacturer_id,
          serial |-> serial, part_id |-> part_id]},
        !.nextId = @ + 1]

SerialKnown(st, serial) == \E i \in st.inventory_items : i.serial = serial

\* variant: the unit "1" of a device that is not stacked is not skipped
IosItem_NoSkip(st, used, device_id, device_name, rp_data, is_stacked) ==
    IF "sn" \notin DOMAIN rp_data THEN Raise(st, used)
    ELSE IF SerialKnown(st, rp_data.sn) THEN Ok(st, used, None)
    ELSE IF "pid" \notin DOMAIN rp_data THEN Raise(st, used)
    ELSE Ok(CreateInventoryItem(st, device_id, device_name \o s_dash \o rp_data.name,
                                rp_data.sn, rp_data.pid), used, None)

\* the rest of one pass of the ios loop, after the sfps
IosItem(st, used, device_id, device_name, rp_data, is_stacked) ==
    IF ~is_stacked /\ device_name \o s_dash \o rp_data.name = device_name \o s_dash \o <<"1">>
    THEN Ok(st, used, None)
    ELSE IF "sn" \notin DOMAIN rp_data THEN Raise(st, used)
    ELSE IF SerialKnown(st, rp_data.sn) THEN Ok(st, used, None)
    ELSE IF "pid" \notin DOMAIN rp_data THEN Raise(st, used)
    ELSE Ok(CreateInventoryItem(st, device_id, device_name \o s_dash \o rp_data.name,
                                rp_data.sn, rp_data.pid), used, None)

RECURSIVE _sync_ios_loop(_, _, _, _, _, _)
_sync_ios_loop(st, used, device_id, device_name, rps, is_stacked) ==
    IF rps = <<>> THEN Ok(st, used, None)
    ELSE Then(IF "subslot" \in DOMAIN Head(rps)
              THEN _handle_sfp_modules(st, used, device_id, Head(rps).subslot)
              ELSE Ok(st, used, None), LAMBDA sfp :
         Then(IosItem(sfp.nb, used, device_id, device_name, Head(rps), is_stacked),
              LAMBDA item :
         _sync_ios_loop(item.nb, used, device_id, device_name, Tail(rps), is_stacked)))

_sync_ios_inventory(st, used, device_id, device_name, inventory_data, is_stacked) ==
    _sync_ios_loop(st, used, device_id, device_name,
                   Field(inventory_data, "slot", <<>>), is_stacked)

\* the rest of one pass of the iosxe loop, after the sfp module
IosxeItem(st, used, device_id, device_name, name, data, is_stacked) ==
    IF ~is_stacked /\ device_name \o s_dash \o name = device_name \o s_dash \o <<"1">>
    THEN Ok(st, used, None)
    ELSE IF IsSubstr(s_Te, device_name \o s_dash \o name) THEN Ok(st, used, None)
    ELSE IF "sn" \notin DOMAIN data THEN Raise(st, used)
    ELSE IF SerialKnown(st, data.sn) THEN Ok(st, used, None)
    ELSE Ok(CreateInventoryItem(st, device_id, device_name \o s_dash \o name, data.sn,
                                Field(data, "pid", <<"N","/","A">>)), used, None)

RECURSIVE _sync_iosxe_loop(_, _, _, _, _, _)
_sync_iosxe_loop(st, used, device_id, device_name, items, is_stacked) ==
    IF items = <<>> THEN Ok(st, used, None)
    ELSE Then(IF "pid" \in DOMAIN Head(items).data
                 /\ IsSubstr(s_SFP, Head(items).data.pid)
              THEN _create_or_update_sfp_module(st, used, device_id,
                       Head(items).name, Head(items).data)
              ELSE Ok(st, used, None), LAMBDA sfp :
         Then(IosxeItem(sfp.nb, used, device_id, device_name,
                        Head(items).name, Head(items).data, is_stacked),
              LAMBDA item :
         _sync_iosxe_loop(item.nb, used, device_id, device_name, Tail(items), is_stacked)))

_sync_iosxe_inventory(st, used, device_id, device_name, inventory_data, is_stacked) ==
    _sync_iosxe_loop(st, used, device_id, device_name,
                     Field(inventory_data, "name", <<>>), is_stacked)

RECURSIVE _sync_nxos_loop(_, _, _, _, _)
_sync_nxos_loop(st, used, device_id, device_name, items) ==
    IF items = <<>> THEN Ok(st, used, None)
    ELSE LET name == Head(items).name
             data == Head(items).data
             inv_name == device_name \o s_dash \o name
             serial == Field(data, "serial_number", "")
             pid == Field(data, "pid", <<>>)
         IN  IF serial = "" \/ serial = "N/A"
             THEN _sync_nxos_loop(st, used, device_id, device_name, Tail(items))
             ELSE IF ~SerialKnown(st, serial)
             THEN _sync_nxos_loop(
                      CreateInventoryItem(st, device_id, inv_name, serial, pid),
                      used, device_id, device_name, Tail(items))
             ELSE _sync_nxos_loop(st, used, device_id, device_name, Tail(items))

_sync_nxos_inventory(st, used, device_id, device_name, inventory_data, is_stacked) ==
    _sync_nxos_loop(st, used, device_id, device_name,
                    Field(inventory_data, "name", <<>>))

_sync_device_inventory(st, used, device_id, device_name, inventory_data, device_os, is_stacked) ==
    IF device_os = s_ios
    THEN _sync_ios_inventory(st, used, device_id, device_name, inventory_data, is_stacked)
    ELSE IF device_os = s_iosxe
    THEN _sync_iosxe_inventory(st, used, device_id, device_name, inventory_data, is_stacked)
    ELSE IF device_os = s_nxos
    THEN _sync_nxos_inventory(st, used, device_id, device_name, inventory_data, is_stacked)
    ELSE Ok(st, used, None)

sync_inventory(st, used, device_id, device_name, inventory_data, device_os, is_stacked) ==
    Then(_remove_obsolete_items(st, used, _get_netbox_serials(st, device_id),
                                _get_device_serials(inventory_data, device_os)),
         LAMBDA removed :
             _sync_device_inventory(removed.nb, used, device_id, device_name,
                                    inventory_data, device_os, is_stacked))

-----------------------------------------------------------------------------
(* CiscoDeviceDiscovery: the reconcilers.  `device` is the testbed entry   *)
(* [name, os, ip]; `b` the parsed outputs (see Bundles).                    *)

s_NA == <<"N","/","A">>
s_Switch == <<"S","w","i","t","c","h">>
s_switch == <<"s","w","i","t","c","h">>
s_default == <<"d","e","f","a","u","l","t">>
s_Chassis == <<"C","h","a","s","s","i","s">>

Digits == <<"0","1","2","3","4","5","6","7","8","9">>
IsDigit(c) == \E i \in 1..10 : Digits[i] = c
DigitValue(c) == (CHOOSE i \in 1..10 : Digits[i] = c) - 1

\* int(s) for a string of decimal digits
RECURSIVE IntOf(_)
IntOf(s) == IF Len(s) = 0 THEN 0
            ELSE 10 * IntOf(SubSeq(s, 1, Len(s) - 1)) + DigitValue(s[Len(s)])

IsNumeral(s) == Len(s) > 0 /\ \A i \in 1..Len(s) : IsDigit(s[i])

\* len(swpar["switch"]["stack"]) > 1, for a swpar that is not None
IsStack(swpar) == swpar # None /\ swpar.stack > 1

\* the identity read from the parsed 'show version' (and, on nxos, from
\* the inventory's Chassis entry); exc: a key the code indexes is missing
Identity(device, b) ==
    LET chassis_items == {i \in 1..Len(Field(b.invpar, "name", <<>>)) :
                             b.invpar.name[i].name = s_Chassis}
    IN  IF device.os = s_nxos
        THEN IF chassis_items = {} THEN [exc |-> TRUE]
             ELSE [exc |-> FALSE,
                   hostname |-> b.hostname, os |-> b.os, os_ver |-> b.version,
                   serial_num |-> b.invpar.name[One(chassis_items)].data.serial_number,
                   platform |-> b.platform,
                   chassis |-> SplitFirst(b.chassis, " ")]
        ELSE [exc |-> FALSE,
              hostname |-> b.hostname, os |-> b.os, os_ver |-> b.version,
              serial_num |-> b.chassis_sn,
              platform |-> b.platform, chassis |-> b.chassis]

\* ipam.ip_addresses.create(address=..., status='online') unless filter() finds one
EnsureOnlineIp(st, addr) ==
    IF IpsByCidr(st, addr) # {} THEN st
    ELSE [st EXCEPT !.ips = @ \cup
             {[id |-> st.nextId, address |-> addr, status |-> "online",
               assigned_object_id |-> 0]},
             !.nextId = @ + 1]

\* val: the Device record create_or_update_device returned.
\* CiscoDeviceDiscovery has no method _get_site_id: for a hostname without
\* a Device record the call at line 131 raises AttributeError.
_sync_device_details(st, used, device, b, choice, rejected) ==
    LET id == Identity(device, b)
        serial_num == IF IsStack(b.swpar) THEN "" ELSE id.serial_num
        st1 == EnsureOnlineIp(st, Cidr(device.ip, 24))
        existing == DevicesByName(st1, id.hostname)
    IN  IF id.exc THEN Raise(st, used)
        ELSE IF existing = {} THEN Raise(st1, used)
        ELSE IF Multi(existing) THEN Raise(st1, used)
        ELSE
        Then(ensure_device_type(st1, used, id.chassis, id.chassis), LAMBDA t :
        Then(ensure_platform(t.nb, used, id.platform,
                             Replace(id.platform, <<" ">>, <<"-">>)), LAMBDA pl :
        Then(ensure_device_role(pl.nb, used, s_Switch, s_switch, choice), LAMBDA ro :
        create_or_update_device(ro.nb, ro.used,
            [name |-> id.hostname,
             device_type_id |-> t.val,
             platform_id |-> pl.val,
             serial |-> serial_num,
             role_id |-> ro.val,
             site_id |-> One(existing).site,
             custom_fields |-> [OS |-> Upper(id.os), Version |-> id.os_ver]],
            rejected))))

RECURSIVE _sync_vlans_loop(_, _, _)

\* variant: the entry "1"/"default" is synced like any other
_sync_vlans_loop_NoSkip(st, used, vlans) ==
    IF vlans = <<>> THEN Ok(st, used, None)
    ELSE IF ~IsNumeral(Head(vlans).vlan_id) THEN Raise(st, used)
    ELSE Then(create_or_update_vlan(st, used,
                  [vid |-> IntOf(Head(vlans).vlan_id),
                   name |-> Field(Head(vlans).data, "name",
                                  <<"V","L","A","N","_">> \o Head(vlans).vlan_id)]),
              LAMBDA r : _sync_vlans_loop(r.nb, used, Tail(vlans)))

\* the loop of _sync_vlans over the entries of vlan_info['vlans']
_sync_vlans_loop(st, used, vlans) ==
    IF vlans = <<>> THEN Ok(st, used, None)
    ELSE IF Head(vlans).vlan_id = <<"1">> /\ "name" \in DOMAIN Head(vlans).data
                                         /\ Head(vlans).data.name = s_default
    THEN _sync_vlans_loop(st, used, Tail(vlans))
    ELSE IF ~IsNumeral(Head(vlans).vlan_id) THEN Raise(st, used)
    ELSE Then(create_or_update_vlan(st, used,
                  [vid |-> IntOf(Head(vlans).vlan_id),
                   name |-> Field(Head(vlans).data, "name",
                                  <<"V","L","A","N","_">> \o Head(vlans).vlan_id)]),
              LAMBDA r : _sync_vlans_loop(r.nb, used, Tail(vlans)))

_sync_vlans(st, used, vlan_info) ==
    IF "vlans" \notin DOMAIN vlan_info THEN Ok(st, used, None)
    ELSE _sync_vlans_loop(st, used, vlan_info.vlans)

RECURSIVE AssignIps(_, _, _, _, _)
AssignIps(st, used, ipv4, interface_id, device_id) ==
    IF ipv4 = <<>> THEN Ok(st, used, None)
    ELSE Then(assign_ip_to_interface(st, used,
                  Cidr(Head(ipv4).ip, Head(ipv4).prefix_length),
                  interface_id, device_id),
              LAMBDA r : AssignIps(r.nb, used, Tail(ipv4), interface_id, device_id))

RECURSIVE _sync_interfaces_loop(_, _, _, _)
_sync_interfaces_loop(st, used, device_id, interfaces) ==
    IF interfaces = <<>> THEN Ok(st, used, None)
    ELSE Then(create_or_update_interface(st, used, device_id,
                  [name |-> Head(interfaces).name,
                   type |-> get_interface_type(Head(interfaces).name, "cdp"),
                   enabled |-> TRUE,
                   label |-> Field(Head(interfaces).data, "status", ""),
                   description |-> Field(Head(interfaces).data, "name", "")]),
              LAMBDA i :
         Then(AssignIps(i.nb, used, Field(Head(interfaces).data, "ipv4", <<>>),
                        i.val, device_id), LAMBDA a :
         _sync_interfaces_loop(a.nb, used, device_id, Tail(interfaces))))

\* `if not interface_info` is true of the empty dict only
_sync_interfaces(st, used, device_id, interface_info) ==
    IF DOMAIN interface_info = {} THEN Ok(st, used, None)
    ELSE IF "interfaces" \notin DOMAIN interface_info THEN Raise(st, used)
    ELSE _sync_interfaces_loop(st, used, device_id, interface_info.interfaces)

_sync_inventory(st, used, device_obj_rec, invpar, device_os, swpar) ==
    sync_inventory(st, used, device_obj_rec.id, device_obj_rec.name, invpar,
                   device_os, IsStack(swpar))

CdpOs(cdp_sw_ver) ==
    IF IsSubstr(<<"I","O","S","-","X","E">>, cdp_sw_ver) THEN <<"I","O","S","-","X","E">>
    ELSE IF IsSubstr(<<"N","X","-","O","S">>, cdp_sw_ver) THEN <<"N","X","-","O","S">>
    ELSE IF IsSubstr(<<"I","O","S">>, cdp_sw_ver) THEN <<"I","O","S">>
    ELSE s_NA

\* steps 5 and 6: dcim.interfaces.get(name, device_id), created when absent
EnsureCdpInterface(st, used, name, device_id) ==
    LET found == InterfacesByName(st, name, device_id)
    IN  IF Multi(found) THEN Raise(st, used)
        ELSE IF found # {} THEN Ok(st, used, One(found).id)
        ELSE create_or_update_interface(st, used, device_id,
                 [name |-> name,
                  type |-> get_interface_type(name, "cdp"),
                  enabled |-> TRUE,
                  description |-> ""])

\* the role a neighbor's capabilities map to
CdpRole(st, used, cdp_device_role, choice) ==
    IF SplitFirst(Lower(cdp_device_role), "_") = s_switch
    THEN ensure_device_role(st, used, s_Switch, s_switch, choice)
    ELSE ensure_device_role(st, used, cdp_device_role,
             Lower(Replace(cdp_device_role, <<" ">>, <<"_">>)), choice)

\* variant: the interface is always named Vlan1
CdpVlanInterface_Vlan1(st, used, neighbor_id, ip_with_prefix, cdp_native_vlan) ==
    LET cdp_ipint == IpsByCidr(st, ip_with_prefix)
    IN  IF Multi(cdp_ipint) THEN Raise(st, used)
        ELSE IF cdp_ipint # {} /\ One(cdp_ipint).assigned_object_id = 0
        THEN create_or_update_interface(st, used, neighbor_id,
                 [name |-> <<"V","l","a","n","1">>,
                  type |-> "virtual",
                  enabled |-> TRUE,
                  description |-> ""])
        ELSE Ok(st, used, None)

\* the Vlan interface made on the neighbor when its address is unbound
CdpVlanInterface(st, used, neighbor_id, ip_with_prefix, cdp_native_vlan) ==
    LET cdp_ipint == IpsByCidr(st, ip_with_prefix)
    IN  IF Multi(cdp_ipint) THEN Raise(st, used)
        ELSE IF cdp_ipint # {} /\ One(cdp_ipint).assigned_object_id = 0
        THEN create_or_update_interface(st, used, neighbor_id,
                 [name |-> IF cdp_native_vlan = <<>> \/ cdp_native_vlan = s_NA
                           THEN <<"V","l","a","n","1">>
                           ELSE <<"V","l","a","n">> \o cdp_native_vlan,
                  type |-> "virtual",
                  enabled |-> TRUE,
                  description |-> ""])
        ELSE Ok(st, used, None)

\* variant: the interfaces and the address, but no cable
CdpLink_NoCable(st, used, local_device_id, neighbor_id, cdp_local_interface, cdp_port_id, ip_with_prefix) ==
    Then(EnsureCdpInterface(st, used, cdp_local_interface, local_device_id), LAMBDA lo :
    Then(EnsureCdpInterface(lo.nb, lo.used, cdp_port_id, neighbor_id), LAMBDA re :
    assign_ip_to_interface(re.nb, re.used, ip_with_prefix, re.val, neighbor_id)))

\* the two interfaces, the neighbor's address and the cable between them
CdpLink(st, used, local_device_id, neighbor_id, cdp_local_interface, cdp_port_id, ip_with_prefix) ==
    Then(EnsureCdpInterface(st, used, cdp_local_interface, local_device_id), LAMBDA lo :
    Then(EnsureCdpInterface(lo.nb, lo.used, cdp_port_id, neighbor_id), LAMBDA re :
    Then(assign_ip_to_interface(re.nb, re.used, ip_with_prefix, re.val, neighbor_id),
         LAMBDA bound :
    create_or_update_cable(bound.nb, bound.used, lo.val, re.val))))

\* one neighbor record of the loop in _sync_cdp_neighbors.  `rejected`: the
\* store rejects dcim.devices.create; `lookup_fails`: the store
\* lookup of get_site_id that raises.
CdpNeighbor(st, used, local_device_id, device_info, choice, rejected, lookup_fails) ==
    LET cdp_device_id == Field(device_info, "device_id", s_NA)
        cdp_device_role == Field(device_info, "capabilities", s_NA)
        cdp_device_type == Replace(Field(device_info, "platform", s_NA),
                                   <<"c","i","s","c","o"," ">>, <<>>)
        cdp_platform == SplitFirst(StripPrefix(cdp_device_type, <<"W","S","-">>), "-")
        cdp_local_interface == Field(device_info, "local_interface", s_NA)
        cdp_port_id == Field(device_info, "port_id", s_NA)
        cdp_native_vlan == Field(device_info, "native_vlan", s_NA)
        cdp_sw_ver == Field(device_info, "software_version", s_NA)
        management_addresses == Field(device_info, "management_addresses", <<>>)
        cdp_mgmt_ip == Head(management_addresses)
        ip_with_prefix == Cidr(cdp_mgmt_ip, 24)
    IN  IF management_addresses = <<>> THEN Ok(st, used, None)
        ELSE
        Then(Ok(EnsureOnlineIp(st, ip_with_prefix), used, None), LAMBDA st1 :
        Then(get_site_id(st1.nb, used, cdp_mgmt_ip, lookup_fails), LAMBDA site :
        Then(ensure_device_type(st1.nb, used, cdp_device_type,
                                Replace(cdp_device_type, <<" ">>, <<"_">>)), LAMBDA t :
        Then(ensure_platform(t.nb, used, cdp_platform,
                             Replace(cdp_platform, <<" ">>, <<"-">>)), LAMBDA pl :
        Then(CdpRole(pl.nb, used, cdp_device_role, choice), LAMBDA ro :
        Then(create_or_update_device(ro.nb, ro.used,
                 [name |-> cdp_device_id,
                  device_type_id |-> t.val,
                  platform_id |-> pl.val,
                  role_id |-> ro.val,
                  site_id |-> site.val,
                  custom_fields |-> [OS |-> CdpOs(cdp_sw_ver)],
                  primary_ip4 |-> 0,
                  primary_ip6 |-> 0], rejected), LAMBDA dev :
        Then(CdpVlanInterface(dev.nb, dev.used, dev.val.id, ip_with_prefix,
                              cdp_native_vlan), LAMBDA vl :
        CdpLink(vl.nb, vl.used, local_device_id, dev.val.id,
                cdp_local_interface, cdp_port_id, ip_with_prefix))))))))

\* discover_device from line 73 on, for parsed outputs b, with no store
\* fault: the store (and used_colors) it leaves behind
RECURSIVE CdpLoop(_, _, _, _)
CdpLoop(st, used, local_device_id, records) ==
    IF records = <<>> THEN Ok(st, used, None)
    ELSE Then(CdpNeighbor(st, used, local_device_id, Head(records), 0, FALSE, "none"),
              LAMBDA r : CdpLoop(r.nb, r.used, local_device_id, Tail(records)))

_sync_cdp_neighbors(st, used, local_device_id, cdppar) ==
    IF "index" \notin DOMAIN cdppar THEN Ok(st, used, None)
    ELSE CdpLoop(remove_loose_cables(st), used, local_device_id, cdppar.index)

\* NX_VTP is unset
nexus_vtp == FALSE

Reconcile(st, used, device, b) ==
    Then(_sync_device_details(st, used, device, b, 0, FALSE), LAMBDA d :
    Then(IF nexus_vtp \/ device.os # s_nxos
         THEN _sync_vlans(d.nb, d.used, b.vlanpar) ELSE d, LAMBDA v :
    Then(_sync_interfaces(v.nb, v.used, d.val.id, b.intpar), LAMBDA i :
    Then(_sync_inventory(i.nb, i.used, d.val, b.invpar, device.os, b.swpar), LAMBDA n :
    IF b.cdp_errored THEN n
    ELSE _sync_cdp_neighbors(n.nb, n.used, d.val.id, b.cdppar)))))

-----------------------------------------------------------------------------
(* The stores a run starts from, and the outputs a device may give.         *)

SW1 == <<"S","W","1">>
SW2 == <<"S","W","2">>
SW3 == <<"S","W","3">>
s_IOS == <<"I","O","S">>
s_IOS_XE == <<"I","O","S","-","X","E">>
s_WS_C2960X == <<"W","S","-","C","2","9","6","0","X">>
s_C2960X == <<"C","2","9","6","0","X">>
s_Switch_IGMP == <<"S","w","i","t","c","h"," ","I","G","M","P">>
s_switch_igmp == <<"s","w","i","t","c","h","_","i","g","m","p">>
s_Router == <<"R","o","u","t","e","r">>
s_Vlan1 == <<"V","l","a","n","1">>
GigabitEthernet1_0_1 ==
    <<"G","i","g","a","b","i","t","E","t","h","e","r","n","e","t","1","/","0","/","1">>
GigabitEthernet1_0_2 ==
    <<"G","i","g","a","b","i","t","E","t","h","e","r","n","e","t","1","/","0","/","2">>
Gi1_0_1 == <<"G","i","1","/","0","/","1">>

ip5 == <<10, 0, 0, 5>>
ip6 == <<10, 0, 0, 6>>
ip7 == <<10, 0, 1, 7>>

EmptyDict == <<>>

Dev(id, name, serial, site, os, os_ver, primary) ==
    [id |-> id, name |-> name, device_type |-> 3, platform |-> 4,
     serial |-> serial, role |-> 1, status |-> "active", site |-> site,
     custom_fields |-> [OS |-> os, Version |-> os_ver], primary_ip4 |-> primary]

Itf(id, device, name, type) ==
    [id |-> id, name |-> name, device |-> device, type |-> type,
     enabled |-> TRUE, label |-> "", description |-> ""]

s_JUNOS == <<"J","U","N","O","S">>

\* SW1 is a documented switch with its management address and a serial
\* from an earlier run; SW2 is absent, entered by hand as a switch of
\* another vendor without an address ("manual"), or documented like SW1
InitStore(sw2, has_prefix, sw1_items) ==
    [devices |->
        {Dev(10, SW1, "OLD123", 1, s_IOS, "15.2", 13)}
        \cup (IF sw2 = "manual" THEN {Dev(14, SW2, "", 1, s_JUNOS, "21.4", 0)} ELSE {})
        \cup (IF sw2 = "full" THEN {Dev(14, SW2, "", 1, s_IOS_XE, "16.9", 16)} ELSE {}),
     interfaces |->
        {Itf(12, 10, s_Vlan1, "virtual")}
        \cup (IF sw2 = "full" THEN {Itf(15, 14, s_Vlan1, "virtual")} ELSE {}),
     ips |->
        {[id |-> 13, address |-> Cidr(ip5, 24), status |-> "active",
          assigned_object_id |-> 12]}
        \cup (IF sw2 = "full"
              THEN {[id |-> 16, address |-> Cidr(ip6, 24), status |-> "active",
                     assigned_object_id |-> 15]}
              ELSE {}),
     vlans |-> {},
     cables |-> {},
     inventory_items |->
        {[id |-> 17 + i, device |-> 10, name |-> SW1 \o s_dash \o <<"9">>,
          manufacturer |-> cisco_manufacturer_id, serial |-> sw1_items[i],
          part_id |-> s_WS_C2960X] : i \in 1..Len(sw1_items)},
     module_bays |-> {},
     module_types |-> {},
     modules |-> {},
     device_types |-> {[id |-> 3, model |-> s_WS_C2960X, slug |-> s_WS_C2960X,
                        manufacturer |-> cisco_manufacturer_id]},
     platforms |-> {[id |-> 4, name |-> s_C2960X, slug |-> s_C2960X]},
     device_roles |-> {[id |-> 1, name |-> s_Switch, slug |-> s_switch,
                        color |-> <<"9","e","9","e","9","e">>],
                       [id |-> 2, name |-> s_Switch_IGMP, slug |-> s_switch_igmp,
                        color |-> <<"f","f","6","f","6","1">>]},
     prefixes |-> IF has_prefix
                  THEN {[prefix |-> Cidr(<<10, 0, 0, 0>>, 24), scope_id |-> 2]}
                  ELSE {},
     nextId |-> 20]

\* the stores a run starts from; the last one carries the leftovers of
\* earlier runs: an item of a unit since removed, a cable between the two
\* switches and a cable whose far interface was deleted by hand
InitStores ==
    {InitStore(m, p, <<>>) : m \in {"absent", "manual", "full"}, p \in BOOLEAN}
    \cup {[InitStore("full", FALSE, <<"S9">>) EXCEPT
              !.interfaces = @ \cup {Itf(11, 10, <<"V","l","a","n","9">>, "virtual")},
              !.cables = {[id |-> 17, a_terminations |-> {12},
                           b_terminations |-> {15}, status |-> "connected"],
                          [id |-> 19, a_terminations |-> {11},
                           b_terminations |-> {}, status |-> "connected"]}]}

\* one neighbor record as 'show cdp neighbors detail' is parsed
Nbr(device_id, capabilities, platform, local_interface, port_id, sw, mgmt) ==
    [device_id |-> device_id, capabilities |-> capabilities, platform |-> platform,
     local_interface |-> local_interface, port_id |-> port_id,
     software_version |-> sw, management_addresses |-> mgmt]

s_cisco_WS_C2960X ==
    <<"c","i","s","c","o"," ","W","S","-","C","2","9","6","0","X">>
s_cisco_ISR4331 == <<"c","i","s","c","o"," ","I","S","R","4","3","3","1">>
s_IOS_15 == <<"I","O","S"," ","1","5">>
s_IOS_XE_16 == <<"I","O","S","-","X","E"," ","1","6">>
s_USERS == <<"U","S","E","R","S">>
s_STAFF == <<"S","T","A","F","F">>
s_GLC_SX == <<"G","L","C","-","S","X">>
s_SFP_10G == <<"S","F","P","-","1","0","G">>

\* the two switches are cabled SW1 GigabitEthernet1/0/1 -- SW2 GigabitEthernet1/0/2
Peer(name) == IF name = SW1 THEN SW2 ELSE SW1
PortOf(name) == IF name = SW1 THEN GigabitEthernet1_0_1 ELSE GigabitEthernet1_0_2
AddressOf(name) == IF name = SW1 THEN ip5 ELSE ip6
SoftwareOf(name) == IF name = SW1 THEN s_IOS_15 ELSE s_IOS_XE_16

MaxNeighbors == 2

PeerRecord(device, mgmt) ==
    Nbr(Peer(device.name), s_Switch_IGMP, s_cisco_WS_C2960X, PortOf(device.name),
        PortOf(Peer(device.name)), SoftwareOf(Peer(device.name)), <<mgmt>>)

\* a third device, a router, seen on the same local port
ThirdRecord(device, mgmt) ==
    Nbr(SW3, s_Router, s_cisco_ISR4331, PortOf(device.name),
        GigabitEthernet1_0_1, s_IOS_15, mgmt)

NeighborRecords(device) ==
    {PeerRecord(device, AddressOf(Peer(device.name))),
     PeerRecord(device, ip7),
     PeerRecord(device, AddressOf(Peer(device.name))) @@ [native_vlan |-> <<"1","0">>],
     ThirdRecord(device, <<>>),
     ThirdRecord(device, <<ip6>>)}

\* the neighbor tables: none, one record, and the pairs in which a record
\* follows one it can interfere with
NeighborTables(device) ==
    {<<>>}
    \cup {<<r>> : r \in NeighborRecords(device)}
    \cup {<<ThirdRecord(device, <<>>), PeerRecord(device, AddressOf(Peer(device.name)))>>,
          <<ThirdRecord(device, <<ip6>>), PeerRecord(device, ip7)>>,
          <<PeerRecord(device, AddressOf(Peer(device.name))), ThirdRecord(device, <<ip6>>)>>,
          <<PeerRecord(device, AddressOf(Peer(device.name))), PeerRecord(device, ip7)>>}

CdpTables(device) ==
    {EmptyDict} \cup {[index |-> t] : t \in {x \in NeighborTables(device) :
                                               Len(x) <= MaxNeighbors}}

VlanTable(device) ==
    [vlans |-> << [vlan_id |-> <<"1">>, data |-> [name |-> s_default]],
                  [vlan_id |-> <<"1","0">>,
                   data |-> [name |-> IF device.name = SW1 THEN s_USERS ELSE s_STAFF]] >>]

InterfaceTable(ip) ==
    [interfaces |-> << [name |-> Gi1_0_1,
                        data |-> [status |-> "connected", name |-> "uplink",
                                  ipv4 |-> <<[ip |-> ip, prefix_length |-> 24]>>]] >>]

\* a two-member stack with an optic in the second member, and a single unit
Inventory(device, members) ==
    IF device.os = s_ios
    THEN [slot |-> [i \in 1..members |->
             IF i = 1 THEN [name |-> <<"1">>, sn |-> "S1", pid |-> s_WS_C2960X]
             ELSE [name |-> <<"2">>, sn |-> "S2", pid |-> s_WS_C2960X,
                   subslot |-> << [name |-> <<"2","/","1">>,
                                   sfps |-> <<[sn |-> "F1", pid |-> s_GLC_SX]>>] >>]]]
    ELSE [name |-> [i \in 1..members |->
             IF i = 1 THEN [name |-> <<"1">>,
                            data |-> [sn |-> "S1", pid |-> s_WS_C2960X]]
             ELSE [name |-> <<"T","e","2","/","1","/","1">>,
                   data |-> [sn |-> "F1", pid |-> s_SFP_10G]]]]

Base(device) ==
    [hostname |-> device.name,
     os |-> IF device.os = s_iosxe THEN s_IOS_XE ELSE s_IOS,
     version |-> "15.2", chassis_sn |-> "ABC123",
     platform |-> s_C2960X, chassis |-> s_WS_C2960X,
     swpar |-> None, vlanpar |-> EmptyDict, intpar |-> EmptyDict,
     invpar |-> EmptyDict, cdp_errored |-> TRUE, cdppar |-> EmptyDict]

Stack(n) == [stack |-> n]

\* what the commands of one device may be parsed to: the plain outputs with
\* one group of facts varied at a time, and the groups together
Bundles(device) ==
    {[Base(device) EXCEPT !.hostname = SW3]}
    \cup {[Base(device) EXCEPT !.swpar = sw] : sw \in {None, Stack(1), Stack(2)}}
    \cup {[Base(device) EXCEPT !.vlanpar = VlanTable(device)]}
    \cup {[Base(device) EXCEPT !.intpar = InterfaceTable(ip)] : ip \in {device.ip, ip7}}
    \cup {[Base(device) EXCEPT !.invpar = Inventory(device, 1)],
          [Base(device) EXCEPT !.invpar = Inventory(device, 2), !.swpar = Stack(2)]}
    \cup {[Base(device) EXCEPT !.cdp_errored = FALSE, !.cdppar = c] :
             c \in CdpTables(device)}
    \cup {[Base(device) EXCEPT !.vlanpar = VlanTable(device),
                               !.intpar = InterfaceTable(device.ip),
                               !.invpar = Inventory(device, 1),
                               !.cdp_errored = FALSE,
                               !.cdppar = [index |-> <<c>>]] :
             c \in {PeerRecord(device, AddressOf(Peer(device.name)))}}

-----------------------------------------------------------------------------
(* TestbedBuilder and NetboxCiscoDiscovery.run_discovery                   *)

\* one testbed entry per device with the role 'switch'
_create_device_config(st, switch) ==
    [name |-> switch.name,
     os |-> Replace(Lower(switch.custom_fields.OS), <<"-">>, <<>>),
     ip |-> IF switch.primary_ip4 # 0
            THEN One({a \in st.ips : a.id = switch.primary_ip4}).address.host
            ELSE <<0, 0, 0, 0>>]

get_switches(st) ==
    LET switch_role == One({r \in st.device_roles : r.slug = s_switch})
    IN  {d \in st.devices : d.role = switch_role.id}

\* the testbed's devices, in any order the store may list them
Testbeds(st) ==
    LET switches == {_create_device_config(st, d) : d \in get_switches(st)}
        n == Cardinality(switches)
    IN  {t \in [1..n -> switches] : \A i, j \in 1..n : t[i] = t[j] => i = j}

_is_cisco_device(device) ==
    \E os_type \in {s_ios, s_iosxe, s_nxos} : IsSubstr(os_type, device.os)


MaxDraw == 2

\* what the environment decides while one neighbor record is processed: the
\* draw of random.choice, whether the store rejects the device's creation,
\* whether the prefix lookup raises
Envs ==
    {[choice |-> c, rejected |-> FALSE, lookup_fails |-> "none"] :
        c \in 0..(MaxDraw - 1)}
    \cup {[choice |-> 0, rejected |-> TRUE, lookup_fails |-> "none"],
          [choice |-> 0, rejected |-> FALSE, lookup_fails |-> "prefix"]}

\* variant: a device that did not complete ends the loop
Resume_Abort(i, n, end) == IF end = "completed" THEN i + 1 ELSE n + 1

\* the for loop of run_discovery: discover_device has returned, however the
\* device ended, and the loop takes the next device
Resume(i, n, end) == i + 1

Current == testbed[idx]
Ended(how) == Append(log, [name |-> Current.name, end |-> how])

Init ==
    /\ nb \in InitStores
    /\ used_colors = <<>>
    /\ testbed \in Testbeds(nb)
    /\ idx = 1
    /\ pc = "loop"
    /\ facts = None
    /\ device_obj = 0
    /\ cdp_pos = 0
    /\ ran = {}
    /\ log = <<>>

\* the loop skips a device whose os is none of ios, iosxe, nxos
Skip ==
    /\ pc = "loop" /\ idx <= Len(testbed)
    /\ ~_is_cisco_device(Current)
    /\ idx' = idx + 1
    /\ UNCHANGED <<nb, used_colors, testbed, pc, facts, device_obj, cdp_pos, ran, log>>

\* discover_device is entered; device.connect() succeeds, or raises and
\* discover_device returns
Connect ==
    /\ pc = "loop" /\ idx <= Len(testbed)
    /\ _is_cisco_device(Current)
    /\ \E connected \in BOOLEAN :
          IF connected
          THEN /\ pc' = "connected"
               /\ UNCHANGED <<idx, log>>
          ELSE /\ pc' = "loop"
               /\ idx' = Resume(idx, Len(testbed), "connect failed")
               /\ log' = Ended("connect failed")
    /\ ran' = {}
    /\ device_obj' = 0
    /\ facts' = None
    /\ UNCHANGED <<nb, used_colors, testbed, cdp_pos>>

\* what can raise in lines 31-71 outside the two inner try blocks: one of
\* the commands executed in lines 31-44 ('show cdp neighbors detail' among
\* them, line 37) and one of the parses of lines 53-71 ('show switch'
\* among them, line 71)
Uncaught ==
    {"execute", "execute show cdp neighbors detail", "parse", "parse show switch"}

\* lines 31-71.  `fault`: what raised outside the inner try blocks, if
\* anything; facts then keeps the fault for the log.  The errors the two
\* try blocks catch ('show switch' not executable, lines 46-51; the cdp
\* output not parseable, lines 59-64) are in b: swpar is None, cdp_errored.
Collect ==
    /\ pc = "connected"
    /\ \E b \in Bundles(Current), fault \in Uncaught \cup {"none"} :
          IF fault \in Uncaught
          THEN /\ pc' = "finally"
               /\ log' = Ended("raised")
               /\ facts' = [fault |-> fault]
          ELSE /\ pc' = "details"
               /\ facts' = b
               /\ UNCHANGED log
    /\ UNCHANGED <<nb, used_colors, testbed, idx, device_obj, cdp_pos, ran>>

\* variant: an exception of the Device Reconciler is swallowed
AfterDetails_Swallow(r) ==
    IF r.exc THEN "vlans" ELSE IF r.val = None THEN "finally" ELSE "vlans"

\* where discover_device goes after _sync_device_details
AfterDetails(r) ==
    IF r.exc THEN "finally" ELSE IF r.val = None THEN "finally" ELSE "vlans"

SyncDeviceDetails ==
    /\ pc = "details"
    /\ \E rejected \in BOOLEAN :
        \E r \in {_sync_device_details(nb, used_colors, Current, facts, 0, rejected)} :
              /\ nb' = r.nb
              /\ used_colors' = r.used
              /\ pc' = AfterDetails(r)
              /\ device_obj' = IF r.exc \/ r.val = None THEN 0 ELSE r.val.id
              /\ log' = IF r.exc THEN Ended("raised")
                        ELSE IF r.val = None THEN Ended("no device") ELSE log
    /\ ran' = ran \cup {"details"}
    /\ UNCHANGED <<testbed, idx, facts, cdp_pos>>

\* a reconciler that raised ends the try block; the next one follows otherwise
Step(r, name, next) ==
    /\ nb' = r.nb
    /\ used_colors' = r.used
    /\ pc' = IF r.exc THEN "finally" ELSE next
    /\ log' = IF r.exc THEN Ended("raised") ELSE log
    /\ ran' = ran \cup {name}
    /\ UNCHANGED <<testbed, idx, facts, device_obj>>

SyncVlans ==
    /\ pc = "vlans"
    /\ IF nexus_vtp \/ Current.os # s_nxos
       THEN \E r \in {_sync_vlans(nb, used_colors, facts.vlanpar)} :
               Step(r, "vlans", "interfaces")
       ELSE /\ pc' = "interfaces"
            /\ UNCHANGED <<nb, used_colors, testbed, idx, facts, device_obj, ran, log>>
    /\ UNCHANGED cdp_pos

SyncInterfaces ==
    /\ pc = "interfaces"
    /\ \E r \in {_sync_interfaces(nb, used_colors, device_obj, facts.intpar)} :
          Step(r, "interfaces", "inventory")
    /\ UNCHANGED cdp_pos

SyncInventory ==
    /\ pc = "inventory"
    /\ \E r \in {_sync_inventory(nb, used_colors, DeviceById(nb, device_obj),
                                  facts.invpar, Current.os, facts.swpar)} :
          Step(r, "inventory", IF facts.cdp_errored THEN "completed" ELSE "cdp")
    /\ UNCHANGED cdp_pos

\* _sync_cdp_neighbors up to its loop: the purge of loose cables
SyncCdpStart ==
    /\ pc = "cdp"
    /\ IF "index" \notin DOMAIN facts.cdppar
       THEN /\ pc' = "completed"
            /\ UNCHANGED <<nb, cdp_pos>>
       ELSE /\ nb' = remove_loose_cables(nb)
            /\ pc' = "cdp loop"
            /\ cdp_pos' = 1
    /\ ran' = ran \cup {"cdp"}
    /\ UNCHANGED <<used_colors, testbed, idx, facts, device_obj, log>>

\* variant: a record without a management address ends the loop
SyncCdpNeighbor_Break ==
    /\ pc = "cdp loop"
    /\ cdp_pos <= Len(facts.cdppar.index)
    /\ \E env \in Envs :
        \E r \in {CdpNeighbor(nb, used_colors, device_obj, facts.cdppar.index[cdp_pos],
                              env.choice, env.rejected, env.lookup_fails)} :
          Step(r, "cdp",
               IF facts.cdppar.index[cdp_pos].management_addresses = <<>>
               THEN "completed" ELSE "cdp loop")
    /\ cdp_pos' = cdp_pos + 1

\* one pass of the loop over cdppar['index']
SyncCdpNeighbor ==
    /\ pc = "cdp loop"
    /\ cdp_pos <= Len(facts.cdppar.index)
    /\ \E env \in Envs :
        \E r \in {CdpNeighbor(nb, used_colors, device_obj, facts.cdppar.index[cdp_pos],
                              env.choice, env.rejected, env.lookup_fails)} :
          Step(r, "cdp", "cdp loop")
    /\ cdp_pos' = cdp_pos + 1

SyncCdpEnd ==
    /\ pc = "cdp loop"
    /\ cdp_pos > Len(facts.cdppar.index)
    /\ pc' = "completed"
    /\ UNCHANGED <<nb, used_colors, testbed, idx, facts, device_obj, cdp_pos, ran, log>>

\* the try block ends without an exception
Completed ==
    /\ pc = "completed"
    /\ pc' = "finally"
    /\ log' = Ended("completed")
    /\ UNCHANGED <<nb, used_colors, testbed, idx, facts, device_obj, cdp_pos, ran>>

\* variant: the session is not released
Finally_Leak ==
    /\ pc = "finally"
    /\ pc' = "loop"
    /\ idx' = Resume(idx, Len(testbed), log[Len(log)].end)
    /\ UNCHANGED <<nb, used_colors, testbed, facts, device_obj, cdp_pos, ran, log>>

\* finally: device.disconnect(); run_discovery goes on to the next device
Finally ==
    /\ pc = "finally"
    /\ pc' = "loop"
    /\ idx' = Resume(idx, Len(testbed), log[Len(log)].end)
    /\ ran' = ran \cup {"disconnect"}
    /\ UNCHANGED <<nb, used_colors, testbed, facts, device_obj, cdp_pos, log>>

Finish ==
    /\ pc = "loop" /\ idx > Len(testbed)
    /\ pc' = "done"
    /\ UNCHANGED <<nb, used_colors, testbed, idx, facts, device_obj, cdp_pos, ran, log>>

Next ==
    \/ Skip
    \/ Connect
    \/ Collect
    \/ SyncDeviceDetails
    \/ SyncVlans
    \/ SyncInterfaces
    \/ SyncInventory
    \/ SyncCdpStart
    \/ SyncCdpNeighbor
    \/ SyncCdpEnd
    \/ Completed
    \/ Finally
    \/ Finish

Spec == Init /\ [][Next]_vars

\* run_discovery is one sequential loop: it always takes its next step
FairSpec == Spec /\ WF_vars(Next)

-----------------------------------------------------------------------------
(* The Inventory Reconciler on its own: discover_device stands before      *)
(* _sync_inventory for SW1, over stores that hold items of earlier         *)
(* sightings and inventories of up to MaxUnits units.                      *)

MaxUnits == 4

SerialOf(k) == <<"S1", "S2", "S3", "S4", "S5">>[k]
UnitName(k) == <<Digits[k + 1]>>

RECURSIVE Ascending(_)
Ascending(S) ==
    IF S = {} THEN <<>>
    ELSE LET m == CHOOSE x \in S : \A y \in S : x <= y
         IN  <<m>> \o Ascending(S \ {m})

Optic == [sn |-> "F1", pid |-> s_GLC_SX]

\* where the reported optic sits: nowhere, in an uplink port ("Te1/1/1"
\* on iosxe) or in a gigabit port ("Gi1/1/1" on iosxe)
Optics == {"none", "uplink", "port"}

\* 'show inventory' of an ios device with the given units; the optic sits
\* in a subslot of the last unit
IosInventory(units, optic) ==
    [slot |-> [i \in 1..Cardinality(units) |->
        LET k == Ascending(units)[i]
            rp == [name |-> UnitName(k), sn |-> SerialOf(k), pid |-> s_WS_C2960X]
        IN  IF optic # "none" /\ i = Cardinality(units)
            THEN rp @@ [subslot |-> << [name |-> UnitName(k) \o <<"/","1">>,
                                        sfps |-> <<Optic>>] >>]
            ELSE rp]]

\* 'show inventory OID' of an iosxe device; the optic is an uplink entry
IosxeInventory(units, optic) ==
    [name |-> [i \in 1..Cardinality(units) |->
                  LET k == Ascending(units)[i]
                  IN  [name |-> UnitName(k),
                       data |-> [sn |-> SerialOf(k), pid |-> s_WS_C2960X]]]
              \o (IF optic = "uplink"
                  THEN << [name |-> <<"T","e","1","/","1","/","1">>,
                           data |-> [sn |-> "F1", pid |-> s_SFP_10G]] >>
                  ELSE IF optic = "port"
                  THEN << [name |-> <<"G","i","1","/","1","/","1">>,
                           data |-> [sn |-> "F1", pid |-> s_SFP_10G]] >>
                  ELSE <<>>)]

\* a switch whose name holds the letters "Te"
Tec1 == <<"T","e","c","1">>

\* the switch `name` with the items of the units `old` from its last
\* sighting, and SW2 holding the item of unit `foreign` (0: none)
InvStore(name, os, old, foreign) ==
    [InitStore("manual", FALSE, <<>>) EXCEPT
        !.devices = {Dev(10, name, "ABC123", 1, os, "15.2", 13),
                     Dev(14, SW2, "", 1, s_JUNOS, "21.4", 0)},
        !.inventory_items =
            {[id |-> 30 + k, device |-> 10, name |-> name \o s_dash \o UnitName(k),
              manufacturer |-> cisco_manufacturer_id, serial |-> SerialOf(k),
              part_id |-> s_WS_C2960X] : k \in old}
            \cup (IF foreign = 0 THEN {}
                  ELSE {[id |-> 35, device |-> 14,
                         name |-> SW2 \o s_dash \o UnitName(foreign),
                         manufacturer |-> cisco_manufacturer_id,
                         serial |-> SerialOf(foreign), part_id |-> s_WS_C2960X]}),
        !.nextId = 40]

InitInv ==
    /\ \E name \in {SW1, Tec1}, os \in {s_IOS, s_IOS_XE}, n \in 0..3, foreign \in {0, 1, 4} :
          nb = InvStore(name, os, 1..n, foreign)
    /\ testbed \in {t \in Testbeds(nb) : t[1].name # SW2}
    /\ \E units \in SUBSET (1..MaxUnits), optic \in Optics, sw \in {None, Stack(2)} :
          facts = [Base(testbed[1]) EXCEPT
                      !.invpar = IF testbed[1].os = s_ios
                                 THEN IosInventory(units, optic)
                                 ELSE IosxeInventory(units, optic),
                      !.swpar = sw]
    /\ used_colors = <<>>
    /\ idx = 1
    /\ pc = "inventory"
    /\ device_obj = 10
    /\ cdp_pos = 0
    /\ ran = {"details", "vlans", "interfaces"}
    /\ log = <<>>

NextInv ==
    \/ Skip
    \/ SyncInventory
    \/ Completed
    \/ Finally
    \/ Finish

SpecInv == InitInv /\ [][NextInv]_vars

-----------------------------------------------------------------------------
(* Properties                                                              *)

Record(i) == facts.cdppar.index[i]

\* the first neighbor record of the current pass has been processed without
\* an exception, and it carried a management address
FirstRecordDone ==
    /\ pc = "cdp loop" /\ cdp_pos = 2
    /\ Record(1).management_addresses # <<>>

Entities(st) ==
    <<st.devices, st.interfaces, st.ips, st.vlans, st.cables,
      st.inventory_items, st.module_bays, st.modules>>

\* C1: Idempotence.  For every store and every bundle of one device,
\* reconciling the bundle a second time right after the first leaves every
\* Device, Interface, IPAddress, VLAN, Cable, InventoryItem, ModuleBay and
\* Module, with all fields, as the first run left them.
C1_Idempotence ==
    pc = "details" =>
        LET once == Reconcile(nb, used_colors, Current, facts)
        IN  ~once.exc =>
                LET twice == Reconcile(once.nb, once.used, Current, facts)
                IN  ~twice.exc /\ Entities(twice.nb) = Entities(once.nb)

Ends(c) == c.a_terminations \cup c.b_terminations

\* C2: Cable symmetry.  No two Cable records connect the same unordered
\* pair of interface ids, also after a link was reported from both sides.
C2_CableSymmetry ==
    \A c1, c2 \in nb.cables : c1 # c2 => Ends(c1) # Ends(c2)

\* the local device has reported, from its side, a link whose cable was
\* created the other way round (A: the neighbor's port, B: the local port)
C2_Witness ==
    /\ FirstRecordDone
    /\ \E c \in nb.cables : \E a \in c.a_terminations : \E b \in c.b_terminations :
          /\ InterfaceById(nb, b).device = device_obj
          /\ InterfaceById(nb, b).name = Record(1).local_interface
          /\ InterfaceById(nb, a).device # device_obj
          /\ InterfaceById(nb, a).name = Record(1).port_id

ItemsOf(st, device_id) == {i \in st.inventory_items : i.device = device_id}
Serials(items) == {i.serial : i \in items}

\* the serials the latest facts yield, optics included
FactSerials == _get_device_serials(facts.invpar, Current.os)

\* the fact entries that take the InventoryItem path: every unit but the
\* unit "1" of a device that is not stacked; on iosxe only the entries
\* whose item name <device>-<entry name> does not contain "Te"
ItemEntries ==
    LET all == IF Current.os = s_ios
               THEN {[name |-> e.name, sn |-> e.sn] : e \in Range(facts.invpar.slot)}
               ELSE {[name |-> e.name, sn |-> e.data.sn] :
                        e \in {x \in Range(facts.invpar.name) :
                                  ~IsSubstr(s_Te, Current.name \o s_dash \o x.name)}}
    IN  {e \in all : IsStack(facts.swpar) \/ e.name # <<"1">>}

\* an inventory pass that ran to its end
InventoryPass == pc = "inventory" /\ pc' = "completed"

C4_StackSuppression ==
    pc = "vlans" =>
        DeviceById(nb, device_obj).serial =
            IF IsStack(facts.swpar) THEN "" ELSE facts.chassis_sn

LaterSteps == {"vlans", "interfaces", "inventory", "cdp"}
LaterPoints == {"vlans", "interfaces", "inventory", "cdp", "cdp loop", "completed"}

Bindings(st) ==
    {<<a.id, a.assigned_object_id>> : a \in {x \in st.ips : x.assigned_object_id # 0}}

DependentWrites(st) ==
    <<st.vlans, st.interfaces, Bindings(st), st.inventory_items,
      st.module_bays, st.modules, st.cables>>

\* C5: Device-first gating.  Within one device's reconciliation no VLAN,
\* Interface, IP binding, InventoryItem, Module or Cable is written before
\* the Device Reconciler has returned the device's record, and when the
\* Device Reconciler fails no other reconciler runs for that device.
C5_DeviceFirst ==
    /\ [](((ran \cap LaterSteps # {}) \/ pc \in LaterPoints)
            => /\ "details" \in ran
               /\ device_obj # 0
               /\ \E d \in nb.devices : d.id = device_obj)
    /\ [][DependentWrites(nb') # DependentWrites(nb)
            => device_obj # 0 /\ pc \in LaterPoints]_vars

\* the Device Reconciler failed and the device ended with no other step run
C5_Witness ==
    /\ pc = "loop" /\ log # <<>>
    /\ ran = {"details", "disconnect"}
    /\ device_obj = 0
    /\ log[Len(log)].end = "raised"

Names(l) == [i \in 1..Len(l) |-> l[i].name]

\* C6: Per-device fault isolation.  Whatever fault ends a device, the run
\* hands every supported device of the testbed to discover_device, in
\* order, and then terminates.
C6_FaultIsolation ==
    /\ <>(pc = "done")
    /\ [](pc = "done" => Names(log) = Names(SelectSeq(testbed, _is_cisco_device)))

\* the first device ended in a fault and the second was reconciled
C6_Witness ==
    /\ pc = "done" /\ Len(log) = 2
    /\ log[1].end = "raised"
    /\ log[2].end = "completed"

\* C7: First sighting.  When the hostname has no Device record, the Device
\* Reconciler creates one with the reported serial and returns it, and the
\* other reconcilers follow.
C7_FirstSighting ==
    [][(pc = "details" /\ DevicesByName(nb, facts.hostname) = {})
          => /\ pc' = "vlans"
             /\ \E d \in nb'.devices :
                   d.name = facts.hostname /\ d.id = device_obj'
                   /\ d.serial = IF IsStack(facts.swpar) THEN "" ELSE facts.chassis_sn]_vars

\* C8: Site continuity.  No reconciliation, of the local device or of a
\* CDP neighbor, changes the site of a Device record that already exists.
C8_SiteContinuity ==
    [][\A d \in nb.devices : \A e \in nb'.devices :
           e.id = d.id => e.site = d.site]_vars

\* C9: Bound addresses never move.  An IPAddress that is assigned to an
\* interface keeps that assignment through every step.
C9_BoundStay ==
    [][\A a \in nb.ips :
           a.assigned_object_id # 0
              => \E a2 \in nb'.ips :
                    a2.id = a.id /\ a2.assigned_object_id = a.assigned_object_id]_vars

\* CDP step 7 was reached for an address that is bound to another
\* interface than the neighbor's reported port
C9_Witness ==
    /\ FirstRecordDone
    /\ \E a \in nb.ips :
          /\ a.address = Cidr(Head(Record(1).management_addresses), 24)
          /\ a.assigned_object_id # 0
          /\ InterfaceById(nb, a.assigned_object_id).name # Record(1).port_id

\* C10: Device name uniqueness.  There is at most one Device per name, and
\* a Device record appears only under a name no record had.
C10_UniqueNames ==
    /\ [](\A d1, d2 \in nb.devices : d1.name = d2.name => d1 = d2)
    /\ [][\A e \in nb'.devices :
             (\A d \in nb.devices : d.id # e.id) => DevicesByName(nb, e.name) = {}]_vars

\* a neighbor record named a Device that the store held from the start,
\* and an earlier step of the run created another Device
C10_Witness ==
    /\ FirstRecordDone
    /\ \E d \in nb.devices : d.name = Record(1).device_id /\ d.id < 20
    /\ \E d \in nb.devices : d.id >= 20

\* the point where a run of discover_device is cut off: after the Device
\* Reconciler (1), the VLANs (2), the interfaces (3), the inventory (4), or
\* after the first k - 4 neighbor records of the topology pass
CutPoints(b) ==
    1..(4 + IF b.cdp_errored \/ "index" \notin DOMAIN b.cdppar
            THEN 0 ELSE Len(b.cdppar.index))

\* discover_device from line 73 on, cut off at the point k
ReconcileUpTo(st, used, device, b, k) ==
    Then(_sync_device_details(st, used, device, b, 0, FALSE), LAMBDA d :
    IF k = 1 THEN d ELSE
    Then(IF nexus_vtp \/ device.os # s_nxos
         THEN _sync_vlans(d.nb, d.used, b.vlanpar) ELSE d, LAMBDA v :
    IF k = 2 THEN v ELSE
    Then(_sync_interfaces(v.nb, v.used, d.val.id, b.intpar), LAMBDA i :
    IF k = 3 THEN i ELSE
    Then(_sync_inventory(i.nb, i.used, d.val, b.invpar, device.os, b.swpar), LAMBDA n :
    IF k = 4 \/ b.cdp_errored \/ "index" \notin DOMAIN b.cdppar THEN n
    ELSE _sync_cdp_neighbors(n.nb, n.used, d.val.id,
                             [index |-> SubSeq(b.cdppar.index, 1, k - 4)])))))

\* the invariants of the store: one Device per name, one Interface per
\* (device, name), one VLAN per vid, one Cable per unordered pair of
\* interfaces, one IPAddress record (hence one binding) per address
StoreValid(st) ==
    /\ \A d1, d2 \in st.devices : d1.name = d2.name => d1 = d2
    /\ \A i1, i2 \in st.interfaces :
          (i1.device = i2.device /\ i1.name = i2.name) => i1 = i2
    /\ \A v1, v2 \in st.vlans : v1.vid = v2.vid => v1 = v2
    /\ \A c1, c2 \in st.cables : Ends(c1) = Ends(c2) => c1 = c2
    /\ \A a1, a2 \in st.ips : a1.address = a2.address => a1 = a2

\* C11: Interrupted-run convergence.  Wherever a device's reconciliation is
\* cut off, the store it leaves satisfies the store invariants, and a later
\* complete run with the same facts ends in the store an uninterrupted run
\* would have ended in.
C11_InterruptedRun ==
    pc = "details" =>
        \A k \in CutPoints(facts) :
            LET part == ReconcileUpTo(nb, used_colors, Current, facts, k)
                full == Reconcile(nb, used_colors, Current, facts)
            IN  (~part.exc /\ ~full.exc) =>
                    /\ StoreValid(part.nb)
                    /\ LET later == Reconcile(part.nb, part.used, Current, facts)
                       IN  ~later.exc /\ Entities(later.nb) = Entities(full.nb)

-----------------------------------------------------------------------------
(* One DeviceManager serving a sequence of ensure_* calls, as the Device   *)
(* Reconciler and the topology pass make them: `facts` holds the last call *)
(* and the id it returned, idx counts the calls.                           *)

MaxCalls == 4

s_ISR4331 == <<"I","S","R","4","3","3","1">>
s_Host == <<"H","o","s","t">>
s_Phone == <<"P","h","o","n","e">>

TypeNames == {s_WS_C2960X, s_ISR4331}
PlatformNames == {s_C2960X, s_ISR4331}
RoleNames == {s_Switch, s_Router, s_Host, s_Phone}

InitEnsure ==
    /\ nb = InitStore("absent", FALSE, <<>>)
    /\ used_colors = <<>>
    /\ testbed = <<>>
    /\ idx = 1
    /\ pc = "ensure"
    /\ facts = None
    /\ device_obj = 0
    /\ cdp_pos = 0
    /\ ran = {}
    /\ log = <<>>

\* the store and the colour memory after the call, and the call on record
Called(r, kind, slug) ==
    /\ nb' = r.nb
    /\ used_colors' = r.used
    /\ facts' = [call |-> kind, slug |-> slug, exc |-> r.exc, val |-> r.val]
    /\ idx' = idx + 1
    /\ UNCHANGED <<testbed, pc, device_obj, cdp_pos, ran, log>>

EnsureDeviceType ==
    /\ pc = "ensure" /\ idx <= MaxCalls
    /\ \E model \in TypeNames :
        \E r \in {ensure_device_type(nb, used_colors, model, model)} :
            Called(r, "type", model)

EnsurePlatform ==
    /\ pc = "ensure" /\ idx <= MaxCalls
    /\ \E name \in PlatformNames :
        \E r \in {ensure_platform(nb, used_colors, name, Replace(name, <<" ">>, <<"-">>))} :
            Called(r, "platform", Replace(name, <<" ">>, <<"-">>))

EnsureDeviceRole ==
    /\ pc = "ensure" /\ idx <= MaxCalls
    /\ \E name \in RoleNames, choice \in 0..(MaxDraw - 1) :
        \E r \in {ensure_device_role(nb, used_colors, name, name, choice)} :
            Called(r, "role", Lower(name))

NextEnsure ==
    \/ EnsureDeviceType
    \/ EnsurePlatform
    \/ EnsureDeviceRole

SpecEnsure == InitEnsure /\ [][NextEnsure]_vars

\* the roles this DeviceManager has created, in the order of their creation
CreatedRoles == {r \in nb.device_roles : r.id >= 20}

\* C12: Color allocation.  As long as one DeviceManager has created no more
\* roles than the palette has colors, the colors it has handed out are
\* pairwise distinct.
C12_ColorAllocation ==
    Cardinality(CreatedRoles) <= Len(colors) =>
        \A r1, r2 \in CreatedRoles : r1 # r2 => r1.color # r2.color

-----------------------------------------------------------------------------
(* The VLAN Reconciler on its own: discover_device stands before           *)
(* _sync_vlans for SW1, over stores that hold VLANs of earlier runs and    *)
(* VLAN tables of up to MaxVlans entries.                                  *)

MaxVlans == 2

s_NX_OS == <<"N","X","-","O","S">>
s_MGMT == <<"M","G","M","T">>

\* the entries 'show vlan' may be parsed to; the last one has no name
VlanEntries ==
    {[vlan_id |-> <<"1">>, data |-> [name |-> s_default]],
     [vlan_id |-> <<"1">>, data |-> [name |-> s_MGMT]],
     [vlan_id |-> <<"1","0">>, data |-> [name |-> s_USERS]],
     [vlan_id |-> <<"1","0">>, data |-> [name |-> s_STAFF]],
     [vlan_id |-> <<"1","0">>, data |-> [state |-> "active"]]}

\* parsed outputs are dicts: no vlan id is listed twice
VlanTables ==
    {EmptyDict}
    \cup {[vlans |-> t] : t \in
            {x \in UNION {[1..n -> VlanEntries] : n \in 0..MaxVlans} :
                \A i, j \in 1..Len(x) : x[i].vlan_id = x[j].vlan_id => i = j}}

\* SW1 alone, running `os`, and the VLANs 1 and 10 as earlier runs left
\* them (a name, or None for no record)
VlanStore(os, name1, name10) ==
    [InitStore("absent", FALSE, <<>>) EXCEPT
        !.devices = {Dev(10, SW1, "ABC123", 1, os, "15.2", 13)},
        !.vlans = (IF name1 = None THEN {}
                   ELSE {[id |-> 17, name |-> name1, vid |-> 1]})
                  \cup (IF name10 = None THEN {}
                        ELSE {[id |-> 18, name |-> name10, vid |-> 10]})]

InitVlans ==
    /\ \E os \in {s_IOS, s_NX_OS}, name1 \in {None, s_default, s_MGMT},
          name10 \in {None, s_USERS} :
          nb = VlanStore(os, name1, name10)
    /\ testbed \in Testbeds(nb)
    /\ \E t \in VlanTables : facts = [Base(testbed[1]) EXCEPT !.vlanpar = t]
    /\ used_colors = <<>>
    /\ idx = 1
    /\ pc = "vlans"
    /\ device_obj = 10
    /\ cdp_pos = 0
    /\ ran = {"details"}
    /\ log = <<>>

NextVlans == SyncVlans

SpecVlans == InitVlans /\ [][NextVlans]_vars

\* the entries of the table _sync_vlans was given, and the name it syncs
ReportedVlans == Range(Field(facts.vlanpar, "vlans", <<>>))
ReportedName(e) == Field(e.data, "name", <<"V","L","A","N","_">> \o e.vlan_id)
Sentinel(e) == e.vlan_id = <<"1">> /\ "name" \in DOMAIN e.data /\ e.data.name = s_default
VlansOf(st, vid) == {v \in st.vlans : v.vid = vid}

\* _sync_vlans has run to its end in this step
VlanPass == pc = "vlans" /\ pc' = "interfaces" /\ "vlans" \in ran'

\* C13: VLAN skip rule.  sync_vlans writes no VLAN for the entry with vid
\* "1" and name "default": the store's VLAN 1 is what it was, present or
\* not; every other entry, vid "1" under another name included, has a VLAN
\* of its vid and name afterwards.
C13_VlanSkip ==
    [][VlanPass =>
          \A e \in ReportedVlans :
              IF Sentinel(e)
              THEN VlansOf(nb', 1) = VlansOf(nb, 1)
              ELSE \E v \in VlansOf(nb', IntOf(e.vlan_id)) : v.name = ReportedName(e)]_vars

\* the table listed VLAN 1 "default" and VLAN 10: the store has no VLAN 1
\* and a new VLAN 10
C13_Witness ==
    /\ pc = "interfaces" /\ "vlans" \in ran
    /\ \E e \in ReportedVlans : Sentinel(e)
    /\ VlansOf(nb, 1) = {}
    /\ \E v \in VlansOf(nb, 10) : v.id >= 20

\* C14: VLAN last-writer-wins.  No two VLANs ever share a vid; after
\* sync_vlans every reported vid but the skipped sentinel has exactly one
\* VLAN, named as just reported, and a VLAN the store already held under
\* another name (an earlier device's report) is that same record renamed.
C14_LastWriterWins ==
    /\ [](\A v1, v2 \in nb.vlans : v1.vid = v2.vid => v1 = v2)
    /\ [][VlanPass =>
            \A e \in ReportedVlans :
                ~Sentinel(e) =>
                    \E v \in nb'.vlans :
                        /\ VlansOf(nb', IntOf(e.vlan_id)) = {v}
                        /\ v.name = ReportedName(e)
                        /\ \A o \in VlansOf(nb, IntOf(e.vlan_id)) : o.id = v.id]_vars

\* VLAN 10, held as "USERS" from an earlier report, was reported as
\* "STAFF": the record (id 18) carries the new name
C14_Witness ==
    /\ pc = "interfaces" /\ "vlans" \in ran
    /\ \E e \in ReportedVlans : e.vlan_id = <<"1","0">> /\ ReportedName(e) = s_STAFF
    /\ \E v \in nb.vlans : v.id = 18 /\ v.vid = 10 /\ v.name = s_STAFF

\* the reference entities of one kind
Referenced(st, kind) ==
    CASE kind = "type" -> st.device_types
      [] kind = "platform" -> st.platforms
      [] kind = "role" -> st.device_roles

\* C15: Ensure semantics.  There is at most one device type, platform and
\* role per slug.  A call with a slug that exists returns that entity's id
\* and writes nothing: the store and the colour memory are what they were.
\* A call with an absent slug adds exactly one entity, under that slug, and
\* returns its id; nothing else in the store changes.
C15_EnsureSemantics ==
    /\ [](\A kind \in {"type", "platform", "role"} :
            \A e1, e2 \in Referenced(nb, kind) : e1.slug = e2.slug => e1 = e2)
    /\ [][idx' = idx + 1 =>
            LET call == facts'
                existing == {e \in Referenced(nb, call.call) : e.slug = call.slug}
            IN  /\ ~call.exc
                /\ IF existing # {}
                   THEN /\ nb' = nb
                        /\ used_colors' = used_colors
                        /\ \E e \in existing : call.val = e.id
                   ELSE \E e \in Referenced(nb', call.call) :
                            /\ e \notin Referenced(nb, call.call)
                            /\ e.slug = call.slug /\ e.id = call.val
                            /\ \E f \in {"device_types", "platforms", "device_roles"} :
                                  nb' = [nb EXCEPT ![f] = @ \cup {e},
                                                   !.nextId = @ + 1]]_vars

\* the role "Switch" was asked for under the slug "Switch": the role of the
\* slug "switch" (id 1) was returned, and neither a record nor a color was
\* added
C15_Witness ==
    /\ pc = "ensure" /\ idx = 2
    /\ facts.call = "role" /\ facts.slug = s_switch /\ facts.val = 1
    /\ used_colors = <<>>
    /\ nb.nextId = 20

\* C16: Update frame.  A Device record that exists keeps its name, role,
\* status and primary address through every step, whatever is reported for
\* it; its serial changes only to a serial that is not empty.
C16_UpdateFrame ==
    [][\A d \in nb.devices :
          \E e \in nb'.devices :
              /\ e.id = d.id
              /\ e.name = d.name /\ e.role = d.role
              /\ e.status = d.status /\ e.primary_ip4 = d.primary_ip4
              /\ (e.serial # d.serial => e.serial # "")]_vars

\* SW2 (id 14, role 1, primary address 16) was reported as a neighbor with
\* the capabilities "Switch IGMP" and without a primary address: its
\* custom attributes were rewritten, its role and primary address kept
C16_Witness ==
    /\ FirstRecordDone
    /\ Record(1).capabilities = s_Switch_IGMP
    /\ \E d \in nb.devices :
          /\ d.id = 14 /\ d.name = Record(1).device_id
          /\ "Version" \notin DOMAIN d.custom_fields
          /\ d.role = 1 /\ d.primary_ip4 = 16

-----------------------------------------------------------------------------
Ids(S) == {x.id : x \in S}

Loose(c) == c.a_terminations = {} \/ c.b_terminations = {}

\* C17: No destructive reconciliation.  No step of a run removes a Device,
\* an Interface, an IPAddress or a VLAN (nor a record of any other kind but
\* the two that follow); an InventoryItem disappears only in the Inventory
\* Reconciler of its device and only when the latest facts do not yield its
\* serial; a Cable disappears only when one of its termination sides is
\* empty.  In particular an Interface the device does not report stays.
C17_NoDestruction ==
    [][/\ Ids(nb.devices) \subseteq Ids(nb'.devices)
       /\ Ids(nb.interfaces) \subseteq Ids(nb'.interfaces)
       /\ Ids(nb.ips) \subseteq Ids(nb'.ips)
       /\ Ids(nb.vlans) \subseteq Ids(nb'.vlans)
       /\ Ids(nb.module_bays) \subseteq Ids(nb'.module_bays)
       /\ Ids(nb.modules) \subseteq Ids(nb'.modules)
       /\ Ids(nb.module_types) \subseteq Ids(nb'.module_types)
       /\ Ids(nb.device_types) \subseteq Ids(nb'.device_types)
       /\ Ids(nb.platforms) \subseteq Ids(nb'.platforms)
       /\ Ids(nb.device_roles) \subseteq Ids(nb'.device_roles)
       /\ nb.prefixes \subseteq nb'.prefixes
       /\ \A c \in nb.cables : c.id \notin Ids(nb'.cables) => Loose(c)
       /\ \A i \in nb.inventory_items :
             i.id \notin Ids(nb'.inventory_items)
             => /\ pc = "inventory"
                /\ i.device = device_obj
                /\ i.serial \notin FactSerials]_vars

\* a run over the store of leftovers has ended for SW1: the stale item and
\* the loose cable are gone, a cable to the neighbor was created, and the
\* interface Vlan1, which the device did not report, is still there
C17_Witness ==
    /\ pc = "completed" /\ Current.name = SW1
    /\ {"interfaces", "inventory", "cdp"} \subseteq ran
    /\ "interfaces" \in DOMAIN facts.intpar
    /\ \A e \in Range(facts.intpar.interfaces) : e.name # s_Vlan1
    /\ \E x \in nb.interfaces : x.id = 12 /\ x.device = 10 /\ x.name = s_Vlan1
    /\ 18 \notin Ids(nb.inventory_items)
    /\ 19 \notin Ids(nb.cables)
    /\ nb.cables # {}

-----------------------------------------------------------------------------
\* the ways in which obtaining the stack status or the neighbor table fails
\* that the two try blocks of discover_device do not cover
OptionalFaults == {"execute show cdp neighbors detail", "parse show switch"}

\* C18: Optional fact groups degrade to absent.  A failure to obtain the
\* stack status or the CDP neighbor table, be it the execution of the
\* command or the parsing of its output, never ends the device before its
\* reconcilers: the collection step goes on to the Device Reconciler.
C18_OptionalFacts ==
    [][(pc = "connected" /\ pc' = "finally") => facts'.fault \notin OptionalFaults]_vars

-----------------------------------------------------------------------------
\* C19: Interface sync result for the reference scenario.  When
\* _sync_interfaces has run to its end for a device reporting Gi1/0/1 with an
\* IPv4 address of prefix length 24, the device has exactly one Interface
\* named Gi1/0/1, of type 1000base-tx and enabled, and the address is bound
\* to it when it was bound to nothing before.
C19_InterfaceSync ==
    [][(/\ pc = "interfaces" /\ pc' = "inventory"
        /\ "interfaces" \in DOMAIN facts.intpar)
       => \A e \in Range(facts.intpar.interfaces) :
             LET its == InterfacesByName(nb', e.name, device_obj)
             IN  /\ Cardinality(its) = 1
                 /\ \A x \in its :
                       /\ x.type = "1000base-tx"
                       /\ x.enabled
                       /\ \A a \in Range(e.data.ipv4) :
                             (\A o \in nb.ips : o.address = Cidr(a.ip, a.prefix_length)
                                                  => o.assigned_object_id = 0)
                             => \E n \in nb'.ips :
                                   /\ n.address = Cidr(a.ip, a.prefix_length)
                                   /\ n.assigned_object_id = x.id]_vars

-----------------------------------------------------------------------------
\* the cables of st that run between the interfaces x and y
Between(st, x, y) ==
    {c \in st.cables : {c.a_terminations, c.b_terminations} = {{x}, {y}}}

\* the store st holds the link the neighbor record r of device local reports
Linked(st, local, r) ==
    /\ Cardinality(DevicesByName(st, r.device_id)) = 1
    /\ \A n \in DevicesByName(st, r.device_id) :
          LET near == InterfacesByName(st, r.local_interface, local)
              far == InterfacesByName(st, r.port_id, n.id)
          IN  /\ Cardinality(near) = 1
              /\ Cardinality(far) = 1
              /\ \A x \in near : \A y \in far :
                    Cardinality(Between(st, x.id, y.id)) = 1

\* C20: Topology terminal state.  Whenever the loop of _sync_cdp_neighbors
\* has processed, without an exception, a neighbor record that carries a
\* management address, the neighbor Device, the local interface and the
\* remote interface (port id) of the record exist, and exactly one Cable has
\* these two interfaces as its terminations.
C20_TopologyTerminal ==
    [][(/\ pc = "cdp loop" /\ pc' = "cdp loop" /\ cdp_pos' = cdp_pos + 1
        /\ Record(cdp_pos).management_addresses # <<>>)
       => Linked(nb', device_obj, Record(cdp_pos))]_vars

\* two records with a management address have been processed, SW2 and the
\* router SW3 seen on the same local port: each has its Device, its
\* interfaces and its cable
C20_Witness ==
    /\ pc = "cdp loop" /\ cdp_pos = 3
    /\ Record(1).device_id # Record(2).device_id
    /\ \A i \in 1..2 : /\ Record(i).management_addresses # <<>>
                        /\ Linked(nb, device_obj, Record(i))
    /\ Cardinality(nb.cables) = 2

-----------------------------------------------------------------------------
\* C21: Neighbor filter.  The pass of the loop over a neighbor record with
\* no management address writes nothing to the store (and draws no color),
\* and the loop goes on to the record that follows.
C21_NeighborFilter ==
    [][(/\ pc = "cdp loop" /\ cdp_pos <= Len(facts.cdppar.index)
        /\ Record(cdp_pos).management_addresses = <<>>)
       => /\ nb' = nb
          /\ used_colors' = used_colors
          /\ pc' = "cdp loop"
          /\ cdp_pos' = cdp_pos + 1]_vars

\* a record without an address was dropped and the record after it has
\* been processed: the link it reports is in the store, and the dropped
\* neighbor has no Device
C21_Witness ==
    /\ pc = "cdp loop" /\ cdp_pos = 3
    /\ Record(1).management_addresses = <<>>
    /\ DevicesByName(nb, Record(1).device_id) = {}
    /\ Record(2).management_addresses # <<>>
    /\ Linked(nb, device_obj, Record(2))

-----------------------------------------------------------------------------
\* C22: Loose-cable purge.  In a topology pass whose neighbor table has
\* records, the step before the loop removes from the store exactly the
\* Cables with an empty A or B side, whatever they were attached to, and
\* nothing else; no such Cable is left when the first record is processed.
C22_LoosePurge ==
    /\ [][(pc = "cdp" /\ "index" \in DOMAIN facts.cdppar)
          => /\ nb' = [nb EXCEPT !.cables = {c \in nb.cables : ~Loose(c)}]
             /\ pc' = "cdp loop" /\ cdp_pos' = 1]_vars
    /\ []((pc = "cdp loop" /\ cdp_pos = 1) => \A c \in nb.cables : ~Loose(c))

\* the pass stands before its first record: the loose cable of an earlier
\* run is gone and the cable between the two switches is still there
C22_Witness ==
    /\ pc = "cdp loop" /\ cdp_pos = 1
    /\ Len(facts.cdppar.index) > 0
    /\ 19 \notin Ids(nb.cables)
    /\ \E c \in nb.cables : c.id = 17 /\ c.a_terminations = {12} /\ c.b_terminations = {15}
    /\ \E i \in nb.inventory_items : i.id = 18

-----------------------------------------------------------------------------
\* the management address of a neighbor record, as the loop looks it up
MgmtAddress(r) == Cidr(Head(r.management_addresses), 24)

\* no IPAddress of the store binds the address to an interface
Unbound(st, addr) == \A o \in IpsByCidr(st, addr) : o.assigned_object_id = 0

\* the name of the management interface of a neighbor record
MgmtName(r) ==
    IF "native_vlan" \in DOMAIN r /\ r.native_vlan # <<>> /\ r.native_vlan # s_NA
    THEN <<"V","l","a","n">> \o r.native_vlan
    ELSE s_Vlan1

Virtual(st) == {x \in st.interfaces : x.type = "virtual"}

\* C23: Neighbor management interface.  When a neighbor record has been
\* processed without an exception: if its management address was bound to
\* no interface, the neighbor has the virtual interface Vlan<native vlan>
\* (Vlan1 without a usable native VLAN) and the address is bound to the
\* interface of the remote port, not to the virtual one; if the address was
\* bound, no virtual interface was created or changed.
C23_MgmtInterface ==
    [][(/\ pc = "cdp loop" /\ pc' = "cdp loop" /\ cdp_pos' = cdp_pos + 1
        /\ Record(cdp_pos).management_addresses # <<>>)
       => LET r == Record(cdp_pos)
              n == One(DevicesByName(nb', r.device_id))
              port == One(InterfacesByName(nb', r.port_id, n.id))
          IN  IF Unbound(nb, MgmtAddress(r))
              THEN /\ \E x \in InterfacesByName(nb', MgmtName(r), n.id) :
                         x.type = "virtual" /\ x.id # port.id
                   /\ Virtual(nb') \ Virtual(nb)
                         \subseteq InterfacesByName(nb', MgmtName(r), n.id)
                   /\ \A o \in IpsByCidr(nb', MgmtAddress(r)) :
                         o.assigned_object_id = port.id
                   /\ IpsByCidr(nb', MgmtAddress(r)) # {}
              ELSE Virtual(nb') = Virtual(nb)]_vars

\* SW2, unknown to the store, was reported with native VLAN 10 and an
\* address the store did not hold: SW2 has the virtual interface Vlan10, and
\* the address is bound to its port GigabitEthernet1/0/2
C23_Witness ==
    /\ FirstRecordDone
    /\ "native_vlan" \in DOMAIN Record(1)
    /\ \E n \in DevicesByName(nb, Record(1).device_id) :
          /\ n.id >= 20
          /\ \E x \in InterfacesByName(nb, <<"V","l","a","n","1","0">>, n.id) :
                x.type = "virtual"
          /\ \E y \in InterfacesByName(nb, Record(1).port_id, n.id) :
                \E o \in IpsByCidr(nb, MgmtAddress(Record(1))) :
                   o.assigned_object_id = y.id

-----------------------------------------------------------------------------
\* every hardware item the latest facts report, nested optics included
HardwareEntries ==
    IF Current.os = s_ios
    THEN {[name |-> e.name, sn |-> e.sn, pid |-> e.pid] : e \in Range(facts.invpar.slot)}
         \cup UNION {UNION {{[name |-> sub.name, sn |-> f.sn, pid |-> f.pid] :
                                f \in Range(sub.sfps)} :
                             sub \in Range(Field(e, "subslot", <<>>))} :
                      e \in Range(facts.invpar.slot)}
    ELSE {[name |-> e.name, sn |-> e.data.sn, pid |-> e.data.pid] :
             e \in Range(facts.invpar.name)}

\* C24: Optic routing is exclusive.  In an inventory pass a reported item
\* whose part id contains "SFP" produces no InventoryItem, and a reported
\* item whose part id does not contain "SFP" produces no Module and no
\* ModuleBay.
C24_OpticRouting ==
    [][InventoryPass =>
          \A e \in HardwareEntries :
             IF IsSubstr(s_SFP, e.pid)
             THEN \A i \in nb'.inventory_items \ nb.inventory_items : i.serial # e.sn
             ELSE /\ \A m \in nb'.modules \ nb.modules : m.serial # e.sn
                  /\ \A b \in nb'.module_bays \ nb.module_bays : b.name # e.name]_vars

-----------------------------------------------------------------------------
\* C25: Newer-CLI-OS exclusion depends only on the entry.  An inventory pass
\* of an iosxe device creates an InventoryItem <device>-<entry name> exactly
\* for the entries whose own name does not contain "Te", that are not the
\* unit "1" of a device that is not stacked, and whose serial the store does
\* not hold yet: the set of entries does not depend on the device's name.
C25_EntryOnly ==
    [][(InventoryPass /\ Current.os = s_iosxe) =>
          LET kept == {e \in Range(facts.invpar.name) :
                          /\ ~IsSubstr(s_Te, e.name)
                          /\ (IsStack(facts.swpar) \/ e.name # <<"1">>)
                          /\ ~SerialKnown(nb, e.data.sn)}
          IN  {i.name : i \in nb'.inventory_items \ nb.inventory_items}
                 = {Current.name \o s_dash \o e.name : e \in kept}]_vars

-----------------------------------------------------------------------------
\* the store st holds, for the device, a Module with the serial of the
\* optic in the ModuleBay named after the subslot
HasModule(st, device_id, bay_name, sfp) ==
    \E b \in st.module_bays : \E m \in st.modules :
       /\ b.device = device_id /\ b.name = bay_name
       /\ m.device = device_id /\ m.module_bay = b.id /\ m.serial = sfp.sn

\* C26: Classic-CLI-OS unit suppression.  An inventory pass of an ios
\* device creates an InventoryItem <device>-<rp name> with the rp's serial
\* exactly for the route processors whose serial no item carries yet and
\* that are not the rp "1" of a device that is not stacked; the optics
\* nested under a route processor are Modules afterwards, suppressed or not.
C26_UnitSuppression ==
    [][(InventoryPass /\ Current.os = s_ios) =>
          LET rps == Range(facts.invpar.slot)
              kept == {e \in rps : /\ (IsStack(facts.swpar) \/ e.name # <<"1">>)
                                    /\ ~SerialKnown(nb, e.sn)}
          IN  /\ {[name |-> i.name, serial |-> i.serial, device |-> i.device] :
                     i \in nb'.inventory_items \ nb.inventory_items}
                  = {[name |-> Current.name \o s_dash \o e.name, serial |-> e.sn,
                      device |-> device_obj] : e \in kept}
              /\ \A e \in rps : \A sub \in Range(Field(e, "subslot", <<>>)) :
                    \A sfp \in Range(sub.sfps) :
                       HasModule(nb', device_obj, sub.name, sfp)]_vars

\* a device that is not stacked reported the single unit "1" with an optic
\* in its subslot, its serial unknown to the store: no InventoryItem was
\* created, the optic is a Module
C26_Witness ==
    /\ pc = "completed" /\ "inventory" \in ran
    /\ Current.os = s_ios /\ ~IsStack(facts.swpar)
    /\ Len(facts.invpar.slot) = 1
    /\ facts.invpar.slot[1].name = <<"1">>
    /\ "subslot" \in DOMAIN facts.invpar.slot[1]
    /\ \A i \in nb.inventory_items : i.id < 40 /\ i.serial # facts.invpar.slot[1].sn
    /\ HasModule(nb, device_obj, <<"1","/","1">>, Optic)

-----------------------------------------------------------------------------
\* the /24 network that contains the host address
Net24(host) == Cidr(<<host[1], host[2], host[3], 0>>, 24)

\* the site the ladder names for a host address in the store st
Ladder(st, host) ==
    LET owners == {DeviceById(st, InterfaceById(st, o.assigned_object_id).device) :
                      o \in {x \in IpsByHost(st, host) : x.assigned_object_id # 0}}
        sited == {d \in owners : d.site # 0}
        scoped == {p \in st.prefixes : p.prefix = Net24(host) /\ p.scope_id # 0}
    IN  IF sited # {} THEN One(sited).site
        ELSE IF scoped # {} THEN One(scoped).scope_id
        ELSE default_site_id

\* C27: Site resolver ladder.  The site written to a neighbor Device is the
\* site of the Device that owns the interface the neighbor's management
\* address is bound to; without such a Device the scope of the /24 Prefix
\* that contains the address; without such a Prefix the default site (which
\* is also what a failed lookup yields).
C27_SiteLadder ==
    [][(/\ pc = "cdp loop" /\ pc' = "cdp loop" /\ cdp_pos' = cdp_pos + 1
        /\ Record(cdp_pos).management_addresses # <<>>)
       => \A n \in DevicesByName(nb', Record(cdp_pos).device_id) :
             n.site \in {Ladder(nb, Head(Record(cdp_pos).management_addresses)),
                         default_site_id}]_vars

-----------------------------------------------------------------------------
(* get_site_id on its own: calls for the addresses of the two switches and *)
(* for an address of the next network, over the stores a run starts from,  *)
(* with each of its store lookups failing in turn.                         *)

LookupFaults == {"none", "address", "device", "prefix"}

InitSite ==
    /\ nb \in InitStores
    /\ used_colors = <<>>
    /\ testbed = <<>>
    /\ idx = 1
    /\ pc = "site"
    /\ facts = None
    /\ device_obj = 0
    /\ cdp_pos = 0
    /\ ran = {}
    /\ log = <<>>

GetSiteId ==
    /\ pc = "site" /\ idx <= MaxCalls
    /\ \E ip \in {ip5, ip6, ip7}, fault \in LookupFaults :
        \E r \in {get_site_id(nb, used_colors, ip, fault)} :
            /\ nb' = r.nb
            /\ used_colors' = r.used
            /\ facts' = [call |-> "site", ip |-> ip, fault |-> fault,
                         exc |-> r.exc, val |-> r.val]
    /\ idx' = idx + 1
    /\ UNCHANGED <<testbed, pc, device_obj, cdp_pos, ran, log>>

NextSite == GetSiteId

SpecSite == InitSite /\ [][NextSite]_vars

\* C28: Site resolver failure mode.  No call of get_site_id raises; a call
\* whose address lookup failed, or whose prefix lookup failed for an address
\* bound to no interface, returns the default site.
C28_SiteFailure ==
    (pc = "site" /\ facts # None)
    => /\ ~facts.exc
       /\ facts.fault = "address" => facts.val = default_site_id
       /\ (facts.fault = "prefix" /\ Unbound(nb, Cidr(facts.ip, 24)))
             => facts.val = default_site_id

-----------------------------------------------------------------------------
\* the records of a collection that belong to other devices than device_id
Others(S, device_id) == {x \in S : x.device # device_id}

\* C29: Inventory sync is scoped to its device.  The Inventory Reconciler
\* of a device, completed or not, leaves the InventoryItems, ModuleBays and
\* Modules of every other device as they were and creates none for them,
\* also when another device holds an item whose serial is stale for the
\* device or is among the serials it reports.
C29_InventoryScope ==
    [][pc = "inventory" =>
          /\ Others(nb'.inventory_items, device_obj) = Others(nb.inventory_items, device_obj)
          /\ Others(nb'.module_bays, device_obj) = Others(nb.module_bays, device_obj)
          /\ Others(nb'.modules, device_obj) = Others(nb.modules, device_obj)]_vars

\* the pass has completed for a device that reported the unit 4, whose
\* serial an item of SW2 carries, and no longer the unit 1: its items of
\* the units 1 and 2 are gone, no item was made for the unit 4, and the
\* item of SW2 is still there
C29_Witness ==
    /\ pc = "completed" /\ "inventory" \in ran
    /\ IsStack(facts.swpar)
    /\ FactSerials = {"S3", "S4"}
    /\ \E i \in nb.inventory_items : i.id = 35 /\ i.device = 14 /\ i.serial = "S4"
    /\ Ids(ItemsOf(nb, device_obj)) = {33}

-----------------------------------------------------------------------------
\* C30: Session release.  The run leaves a device only by disconnecting
\* from it, or without a store write and without a disconnect when the
\* device is skipped or its connect failed; disconnect is called in the
\* finally block only, once per device, the store is not written after it,
\* and the next device is started right after it.  Every device whose
\* connect succeeded is disconnected in the end, however its
\* reconciliation went.
C30_SessionRelease ==
    /\ [][/\ idx' # idx =>
               IF pc = "finally"
               THEN "disconnect" \notin ran /\ "disconnect" \in ran' /\ nb' = nb
               ELSE /\ pc = "loop" /\ nb' = nb
                    /\ _is_cisco_device(Current) => "disconnect" \notin ran'
          /\ ("disconnect" \notin ran /\ "disconnect" \in ran')
               => pc = "finally" /\ pc' = "loop" /\ idx' = idx + 1
          /\ "disconnect" \in ran => nb' = nb]_vars
    /\ (pc = "connected") ~> ("disconnect" \in ran)

\* the Device Reconciler raised for the first device: the device was
\* disconnected and the run stands before the next device
C30_Witness ==
    /\ pc = "loop" /\ idx = 2 /\ Len(log) = 1 /\ Len(testbed) = 2
    /\ log[1].end = "raised"
    /\ ran = {"details", "disconnect"}

-----------------------------------------------------------------------------
\* the cables of st that end at the interface x
CablesAt(st, x) == {c \in st.cables : x \in Ends(c)}

\* C31: One cable per interface.  Every run starts from a store in which
\* each interface terminates at most one Cable; in every state of the run
\* each interface still terminates at most one Cable, also after a pass
\* that reported another neighbor or remote port on a local interface.
C31_OneCablePerInterface ==
    \A x \in nb.interfaces : Cardinality(CablesAt(nb, x.id)) <= 1

====
